---- MODULE Spec2Model ----
(***************************************************************************)
(* Airport tracking system: the API client (getOpenSkyFlights,             *)
(* getAviationStackFlights, getAllFlights, removeDuplicateFlights) and the *)
(* flight monitor service (startMonitoring, stopMonitoring,                *)
(* updateFlightData, storeLivePositions, storeSchedules, getLiveFlights).  *)
(*                                                                         *)
(* Strings that the code takes apart (callsigns, flight numbers,           *)
(* registrations) are sequences of one-character strings; strings that are *)
(* only compared are TLA+ strings.  Coordinates are integers in units of   *)
(* 1e-4 degree, distances are integers in metres, altitudes in feet are    *)
(* integers in units of 1e-5 ft (metres * 328084).                         *)
(***************************************************************************)
EXTENDS Integers, Sequences, FiniteSets, TLC

VARIABLES
    client,          \* which of the two client sources is loaded
    aviationStackKey,\* APIClient.aviationStackKey is truthy.  The constructor
                     \* leaves the field unset (its assignment is commented
                     \* out); it is truthy when the exported instance has
                     \* been given a key.
    \* ---- FlightMonitorService, periodic monitoring ----
    updateInterval,  \* this.updateInterval: 0 (null) or a timer handle
    timers,          \* the interval timers registered in the event loop
    monitoring,      \* history: startMonitoring was called and no stopMonitoring since
    cycles,          \* the executions of updateFlightData in progress, in start order
    \* ---- the external stores ----
    redis,           \* position cache: callsign of the key -> [ttl]
    mongo,           \* schedule store: sequence of documents of flight_schedules
    \* ---- one call of getAllFlights / getLiveFlights ----
    call,            \* the call's record (see InitCall)
    \* ---- one application of a function that keeps no state ----
    pure,            \* its name, its arguments and what it gave
    \* ---- storeSchedules, by caller ----
    storing          \* caller -> the call in progress (see NotStoring)

vars == <<client, aviationStackKey, updateInterval, timers, monitoring, cycles,
          redis, mongo, call, pure, storing>>

\* ------------------------------------------------------------------ bounds
MaxStates == 2      \* states in one telemetry response
MaxSchedules == 2   \* flights in one schedule response
MaxCycles == 2      \* executions of updateFlightData in progress at once
MaxStarts == 2      \* calls of startMonitoring in one behaviour
MaxFlights == 3     \* flights in one list given to removeDuplicateFlights
MaxGrid == 3        \* boxes along one axis of a grid of calculateBoundingBoxes

\* ------------------------------------------------------------ JS helpers
\* A value that may be null or undefined is a sequence of at most one
\* element: None is null/undefined, Some(v) is the value v.
None == <<>>
Some(v) == <<v>>
isNull(x) == x = None
val(x) == x[1]

Min(a, b) == IF a < b THEN a ELSE b

\* String.prototype.substring(0, n)
substring0(s, n) == SubSeq(s, 1, Min(n, Len(s)))

\* String.prototype.includes
includes(s, sub) ==
    \E i \in 0..(Len(s) - Len(sub)) : SubSeq(s, i + 1, i + Len(sub)) = sub

\* String.prototype.trim
RECURSIVE trimLeft(_)
trimLeft(s) == IF s # <<>> /\ Head(s) = " " THEN trimLeft(Tail(s)) ELSE s
RECURSIVE trimRight(_)
trimRight(s) ==
    IF s # <<>> /\ s[Len(s)] = " " THEN trimRight(SubSeq(s, 1, Len(s) - 1)) ELSE s
trim(s) == trimRight(trimLeft(s))

\* Number.prototype.toFixed(3) on a coordinate in 1e-4 degree.  The result is
\* text: a "-" for every number below zero, also when every digit printed is
\* 0 ("-0.000"), then the magnitude rounded to nearest, here in 1e-3 degree
\* (the model's points have no ties).
toFixed3(v) ==
    [minus |-> v < 0, digits |-> ((IF v < 0 THEN -v ELSE v) + 5) \div 10]

\* ---------------------------------------------------------------- strings
UNKNOWN == <<"U","N","K","N","O","W","N">>
LH123 == <<"L","H","1","2","3">>
KL12 == <<"K","L","1","2">>
KL99 == <<"K","L","9","9">>
XX77 == <<"X","X","7","7">>
ZZ9 == <<"Z","Z","9">>

\* ------------------------------------------------------- APIClient config
\* constructor: airportLat/airportLon (defaults), in 1e-4 degree
airportLat == 500379
airportLon == 85622

\* the zone radius the filter of getOpenSkyFlights uses, in metres:
\* this.airportRadius (default '1000' km) in the one source, the literal 200
\* in the other
airportRadiusM(cl) == IF cl = "part_000" THEN 1000 * 1000 ELSE 200 * 1000

\* this.airportRadius, the configured zone radius (AIRPORT_ZONE_RADIUS_KM or
\* the default of the source: '1000', '50'), in metres
configuredRadiusM(cl) == IF cl = "part_000" THEN 1000 * 1000 ELSE 50 * 1000

\* calculateDistance(airportLat, airportLon, lat, lon) in metres, at the
\* model's points (haversine with R = 6371 km, rounded to the metre).  A null
\* coordinate is coerced to 0 by the arithmetic.
coerce(x) == IF isNull(x) THEN 0 ELSE val(x)
calculateDistance(lat, lon) ==
    LET p == <<coerce(lat), coerce(lon)>> IN
    CASE p = <<500380, 85620>> -> 18
      [] p = <<500380, 85624>> -> 18
      [] p = <<500381, 85621>> -> 23
      [] p = <<505000, 90000>> -> 60070
      [] p = <<520000, 100000>> -> 240228
      [] p = <<400000, -30000>> -> 1435916
      [] p = <<500000, 0>> -> 611420
      [] p = <<0, 0>> -> 5623232

\* --------------------------------------------------------- telemetry feed
\* One state vector of /states/all, by the offsets the client reads:
\* cs = state[1], lon = state[5], lat = state[6], alt = state[7] (metres),
\* gnd = state[8]; each may be null.
RawState(cs, lat, lon, alt, gnd) ==
    [cs |-> cs, lat |-> lat, lon |-> lon, alt |-> alt, gnd |-> gnd]

RawStates ==
    { RawState(Some(<<"K","L","1","2"," "," "," "," ">>),
               Some(500380), Some(85620), Some(3000), Some(FALSE)),
      RawState(Some(KL12), Some(500381), Some(85621), Some(3000), Some(FALSE)),
      RawState(Some(LH123), Some(505000), Some(90000), None, Some(TRUE)),
      RawState(None, Some(520000), Some(100000), Some(1000), Some(FALSE)),
      RawState(Some(ZZ9), Some(400000), Some(-30000), Some(6000), Some(FALSE)),
      RawState(Some(XX77), None, None, Some(200), Some(FALSE)) }

RECURSIVE SeqsUpTo(_, _)
SeqsUpTo(S, n) ==
    IF n = 0 THEN { <<>> }
    ELSE LET shorter == SeqsUpTo(S, n - 1) IN
         shorter \cup { Append(q, x) : q \in shorter, x \in S }

\* response.data of a successful request: None when data.states is absent,
\* else Some(states), where an entry of states is null or a state vector
Responses ==
    {None} \cup
    { Some(q) : q \in SeqsUpTo({None} \cup { Some(r) : r \in RawStates }, MaxStates) }

\* ---------------------------------------------------------- normalization
metresToFeet == 328084   \* 3.28084 in units of 1e-5

\* the first .map of getOpenSkyFlights (x ? f(x) : d, x || d)
normalize(state) ==
    [callsign |-> IF ~isNull(state.cs) /\ val(state.cs) # <<>>
                  THEN trim(val(state.cs)) ELSE UNKNOWN,
     longitude |-> state.lon,
     latitude |-> state.lat,
     altitude |-> IF ~isNull(state.alt) /\ val(state.alt) # 0
                  THEN val(state.alt) * metresToFeet ELSE 0,
     on_ground |-> IF ~isNull(state.gnd) THEN val(state.gnd) ELSE FALSE]

\* the second .map: the distance from the airport
withDistance(flight) ==
    [callsign |-> flight.callsign, longitude |-> flight.longitude,
     latitude |-> flight.latitude, altitude |-> flight.altitude,
     on_ground |-> flight.on_ground,
     distance |-> calculateDistance(flight.latitude, flight.longitude)]

SelectSeqBy(s, Test(_)) == SelectSeq(s, Test)
MapSeq(s, F(_)) == [i \in 1..Len(s) |-> F(s[i])]

\* Array.prototype.sort((a, b) => a.distance - b.distance): stable
RECURSIVE insertSorted(_, _)
insertSorted(sorted, f) ==
    IF sorted = <<>> THEN <<f>>
    ELSE IF sorted[Len(sorted)].distance <= f.distance THEN Append(sorted, f)
    ELSE Append(insertSorted(SubSeq(sorted, 1, Len(sorted) - 1), f),
                sorted[Len(sorted)])
RECURSIVE sortByDistance(_)
sortByDistance(fs) ==
    IF fs = <<>> THEN <<>>
    ELSE insertSorted(sortByDistance(SubSeq(fs, 1, Len(fs) - 1)), fs[Len(fs)])

\* the log of the closest five calls latitude.toFixed / longitude.toFixed,
\* which throws a TypeError on a null coordinate
closestLogged == 5
logThrows(flights) ==
    \E i \in 1..Min(closestLogged, Len(flights)) :
        isNull(flights[i].latitude) \/ isNull(flights[i].longitude)

\* the outcome of a block of code: its value, or thrown
Returned(v) == [thrown |-> FALSE, value |-> v]
Thrown == [thrown |-> TRUE, value |-> <<>>]

\* getOpenSkyFlights from the response on: the processing of response.data
\* inside the try block
processStates(cl, data) ==
    IF isNull(data) THEN Returned(<<>>)
    ELSE LET validStates == MapSeq(SelectSeqBy(val(data), LAMBDA s : ~isNull(s)), val)
             flights == sortByDistance(
                            MapSeq(MapSeq(validStates, normalize), withDistance))
             inZone(f) == f.distance <= airportRadiusM(cl)
         IN IF validStates = <<>> THEN Returned(<<>>)
            ELSE IF logThrows(flights) THEN Thrown
            ELSE Returned(SelectSeqBy(flights, inZone))

\* the try/catch of getOpenSkyFlights around the block r: any error gives [].
\* The result is how the function's promise settles (Thrown: rejected).
openSkyCatch(r) == Returned(IF r.thrown THEN <<>> ELSE r.value)

\* variant: a repeated key is taken out of the set of seen keys
RECURSIVE removeDuplicateFlightsToggle(_)
removeDuplicateFlightsToggle(flights) ==
    IF flights = <<>> THEN <<>>
    ELSE LET front == removeDuplicateFlightsToggle(SubSeq(flights, 1, Len(flights) - 1))
             last == flights[Len(flights)]
             same(f) == <<f.callsign, toFixed3(val(f.latitude)), toFixed3(val(f.longitude))>>
                        = <<last.callsign, toFixed3(val(last.latitude)),
                            toFixed3(val(last.longitude))>>
             before == Cardinality({ i \in 1..(Len(flights) - 1) : same(flights[i]) })
         IN IF before % 2 = 1 THEN front ELSE Append(front, last)

\* removeDuplicateFlights
fingerprint(flight) ==
    <<flight.callsign, toFixed3(val(flight.latitude)), toFixed3(val(flight.longitude))>>
RECURSIVE removeDuplicateFlights(_)
removeDuplicateFlights(flights) ==
    IF flights = <<>> THEN <<>>
    ELSE LET front == removeDuplicateFlights(SubSeq(flights, 1, Len(flights) - 1))
             last == flights[Len(flights)]
         IN IF \E i \in 1..(Len(flights) - 1) :
                   fingerprint(flights[i]) = fingerprint(last)
            THEN front ELSE Append(front, last)

\* --------------------------------------------------------- schedule feed
\* A schedule as getAviationStackFlights builds it, by the fields the
\* monitor reads: flightNumber and aircraft.registration (null or a string),
\* departure.gate and departure.terminal (null or a string).
Schedule(fn, airline, reg, terminal, gate, status) ==
    [flightNumber |-> fn, airline |-> airline, registration |-> reg,
     terminal |-> terminal, gate |-> gate, status |-> status]

\* APIClient.generateSampleFlights
generateSampleFlights ==
    << Schedule(Some(LH123), "Lufthansa", Some(<<"D","-","A","I","D","E">>),
                Some("Terminal 1"), Some("A5"), "scheduled"),
       Schedule(Some(<<"D","L","4","5","6">>), "Delta Air Lines",
                Some(<<"N","1","2","3","D","A">>),
                Some("Terminal 2"), Some("C12"), "scheduled"),
       Schedule(Some(<<"B","A","7","8","9">>), "British Airways",
                Some(<<"G","-","X","W","B","A">>),
                Some("Terminal 3"), Some("E8"), "active") >>

\* FlightMonitorService.generateSampleSchedules
generateSampleSchedules ==
    << Schedule(Some(LH123), "Lufthansa", Some(<<"D","-","A","I","D","E">>),
                Some("Terminal 1"), Some("A5"), "active"),
       Schedule(Some(<<"D","L","4","5","6">>), "Delta Air Lines",
                Some(<<"N","1","2","3","D","A">>),
                Some("Terminal 2"), Some("C12"), "active"),
       Schedule(Some(<<"B","A","7","8","9">>), "British Airways",
                Some(<<"G","-","X","W","B","A">>),
                Some("Terminal 3"), Some("E8"), "active"),
       Schedule(Some(<<"G","F","A","0","0","6">>), "Gulf Air",
                Some(<<"A","9","C","-","?","?">>),
                Some("Terminal 1"), Some("B22"), "active"),
       Schedule(Some(<<"E","Z","Y","8","4","E","L">>), "EasyJet",
                Some(<<"G","-","E","Z","?","?">>),
                Some("Terminal 2"), Some("D45"), "active"),
       Schedule(Some(<<"U","A","E","4","2">>), "Emirates",
                Some(<<"A","6","-","E","?","?">>),
                Some("Terminal 1"), Some("A10"), "active"),
       Schedule(Some(<<"T","H","Y","7","M","F">>), "Turkish Airlines",
                Some(<<"T","C","-","J","?","?">>),
                Some("Terminal 1"), Some("B18"), "active"),
       Schedule(Some(<<"B","C","S","3","9","G">>), "European Air Transport",
                Some(<<"D","-","A","T","?","?">>),
                Some("Terminal 2"), Some("C8"), "active"),
       Schedule(Some(<<"A","I","C","2","0","1","6">>), "Air India Cargo",
                Some(<<"V","T","-","?","?">>),
                Some("Terminal 1"), Some("B10"), "active"),
       Schedule(Some(<<"B","C","S","9","T","C">>), "European Air Transport",
                Some(<<"D","-","A","T","?","?">>),
                Some("Terminal 2"), Some("C15"), "active"),
       Schedule(Some(<<"M","B","U","8","T","N">>), "CargoLogic Germany",
                Some(<<"D","-","A","?","?">>),
                Some("Terminal 2"), Some("D20"), "active"),
       Schedule(Some(<<"F","D","X","4","2","9","3">>), "FedEx Express",
                Some(<<"N","4","?","?">>),
                Some("Terminal 1"), Some("A25"), "active"),
       Schedule(Some(<<"M","P","H","9","1","7","2">>), "Martinair Cargo",
                Some(<<"P","H","-","M","?","?">>),
                Some("Terminal 1"), Some("B30"), "active") >>

\* the flights the schedule source may deliver (response.data.data), already
\* in the shape the transform of getAviationStackFlights gives them
ApiSchedules ==
    { Schedule(Some(LH123), "Lufthansa", None, Some("Terminal 1"), Some("Z9"), "scheduled"),
      Schedule(Some(KL99), "KLM", None, Some("Terminal 2"), Some("D1"), "scheduled"),
      Schedule(Some(KL12), "KLM", None, Some("Terminal 2"), Some("D2"), "delayed"),
      Schedule(Some(<<"Q","R","5">>), "Qatar Airways", Some(KL12), None, None, "active") }

\* response.data of the schedule request: no data, an error payload, or the
\* list data.data
AviationResponses ==
    { [kind |-> "nodata", data |-> <<>>], [kind |-> "error", data |-> <<>>] }
    \cup { [kind |-> "data", data |-> q] : q \in SeqsUpTo(ApiSchedules, MaxSchedules) }

\* getAviationStackFlights from the response on
processSchedules(resp) ==
    IF resp.kind = "nodata" THEN generateSampleFlights
    ELSE IF resp.kind = "error" THEN generateSampleFlights
    ELSE IF resp.data = <<>> THEN generateSampleFlights
    ELSE resp.data

\* -------------------------------------------------------------- correlator
\* scheduleMap is an object: its own properties in creation order, as a
\* sequence of [key, value].
mapHas(m, k) == \E i \in 1..Len(m) : m[i].key = k
mapIndex(m, k) == CHOOSE i \in 1..Len(m) : m[i].key = k
\* m[k] (own properties; the model's keys name no property of Object.prototype)
mapGet(m, k) == IF mapHas(m, k) THEN Some(m[mapIndex(m, k)].value) ELSE None
\* m[k] = v
mapSet(m, k, v) ==
    IF mapHas(m, k) THEN [m EXCEPT ![mapIndex(m, k)].value = v]
    ELSE Append(m, [key |-> k, value |-> v])

\* An own property key is an array index when it is the canonical decimal
\* form of an integer; Object.entries lists those first, in ascending
\* numeric order, and the other keys after them in creation order.
Digits == {"0", "1", "2", "3", "4", "5", "6", "7", "8", "9"}
digitValue(c) ==
    CASE c = "0" -> 0 [] c = "1" -> 1 [] c = "2" -> 2 [] c = "3" -> 3
      [] c = "4" -> 4 [] c = "5" -> 5 [] c = "6" -> 6 [] c = "7" -> 7
      [] c = "8" -> 8 [] c = "9" -> 9
isArrayIndex(k) ==
    /\ k # <<>>
    /\ \A i \in 1..Len(k) : k[i] \in Digits
    /\ (Len(k) = 1 \/ k[1] # "0")
RECURSIVE numericValue(_)
numericValue(k) ==
    IF k = <<>> THEN 0
    ELSE 10 * numericValue(SubSeq(k, 1, Len(k) - 1)) + digitValue(k[Len(k)])
RECURSIVE insertByIndex(_, _)
insertByIndex(sorted, e) ==
    IF sorted = <<>> THEN <<e>>
    ELSE IF numericValue(sorted[Len(sorted)].key) <= numericValue(e.key)
         THEN Append(sorted, e)
    ELSE Append(insertByIndex(SubSeq(sorted, 1, Len(sorted) - 1), e),
                sorted[Len(sorted)])
RECURSIVE sortByIndex(_)
sortByIndex(es) ==
    IF es = <<>> THEN <<>>
    ELSE insertByIndex(sortByIndex(SubSeq(es, 1, Len(es) - 1)), es[Len(es)])
objectEntries(m) ==
    sortByIndex(SelectSeqBy(m, LAMBDA e : isArrayIndex(e.key)))
    \o SelectSeqBy(m, LAMBDA e : ~isArrayIndex(e.key))

\* a string is truthy unless null, undefined or empty
truthyString(x) == ~isNull(x) /\ val(x) # <<>>
truthyText(x) == ~isNull(x) /\ val(x) # ""

\* getLiveFlights: the two loops that fill scheduleMap
RECURSIVE addApiSchedules(_, _)
addApiSchedules(m, schedules) ==
    IF schedules = <<>> THEN m
    ELSE LET schedule == Head(schedules) IN
         addApiSchedules(
             IF truthyString(schedule.flightNumber)
             THEN mapSet(m, val(schedule.flightNumber), schedule) ELSE m,
             Tail(schedules))
RECURSIVE addSampleSchedules(_, _)
addSampleSchedules(m, schedules) ==
    IF schedules = <<>> THEN m
    ELSE LET schedule == Head(schedules) IN
         addSampleSchedules(
             IF truthyString(schedule.flightNumber)
                /\ ~mapHas(m, val(schedule.flightNumber))
             THEN mapSet(m, val(schedule.flightNumber), schedule) ELSE m,
             Tail(schedules))
buildScheduleMap(aviationStackFlights) ==
    addSampleSchedules(addApiSchedules(<<>>, aviationStackFlights),
                       generateSampleSchedules)

\* the fallback scan over Object.entries(scheduleMap): the first entry whose
\* key contains the first two characters of the callsign or whose
\* registration is the callsign
fallbackHit(e, callsign) ==
    \/ includes(e.key, substring0(callsign, 2))
    \/ e.value.registration = Some(callsign)
fallbackScan(m, callsign) ==
    LET entries == objectEntries(m)
        hits == { i \in 1..Len(entries) : fallbackHit(entries[i], callsign) }
    IN IF hits = {} THEN None
       ELSE Some(entries[CHOOSE i \in hits : \A j \in hits : i <= j].value)

\* variant: the schedule of the last-resort default of the returned object
placeholderScheduleBare(callsign) ==
    Schedule(Some(callsign), "Unknown", None, None, None, "in-flight")
    @@ [departureAirport |-> "Unknown", departureIata |-> "N/A",
        arrivalAirport |-> "Unknown", arrivalIata |-> "N/A"]

\* the schedule synthesized when nothing matches
placeholderSchedule(callsign) ==
    Schedule(Some(callsign), "Unknown Airline", Some(callsign),
             Some("N/A"), Some("N/A"), "in-flight")
    @@ [departureAirport |-> "Unknown Airport", departureIata |-> "N/A",
        arrivalAirport |-> "Unknown Airport", arrivalIata |-> "N/A",
        arrivalTerminal |-> "N/A", arrivalGate |-> "N/A"]
\* variant: the scan runs before the direct lookup
matchScheduleScanFirst(m, callsign) ==
    LET scanned == fallbackScan(m, callsign) IN
    IF ~isNull(scanned) THEN val(scanned)
    ELSE LET direct == mapGet(m, callsign) IN
         IF ~isNull(direct) THEN val(direct)
         ELSE placeholderSchedule(callsign)
\* the schedule getLiveFlights selects for one flight
matchSchedule(m, callsign) ==
    LET direct == mapGet(m, callsign) IN
    IF ~isNull(direct) THEN val(direct)
    ELSE LET scanned == fallbackScan(m, callsign) IN
         IF ~isNull(scanned) THEN val(scanned)
         ELSE placeholderSchedule(callsign)

\* determineStatusFromOpenSky (altitude in 1e-5 ft)
feetUnit == 100000
\* variant: the upper threshold is inclusive
determineStatusFromOpenSkyInclusive(flight) ==
    IF flight.on_ground THEN "on-ground"
    ELSE IF flight.altitude < 1000 * feetUnit THEN "taxiing"
    ELSE IF flight.altitude >= 5000 * feetUnit THEN "in-flight"
    ELSE "climbing"
determineStatusFromOpenSky(flight) ==
    IF flight.on_ground THEN "on-ground"
    ELSE IF flight.altitude < 1000 * feetUnit THEN "taxiing"
    ELSE IF flight.altitude > 5000 * feetUnit THEN "in-flight"
    ELSE "climbing"

\* one element of enrichedFlights
enrich(m, flight) ==
    LET schedule == matchSchedule(m, flight.callsign) IN
    [callsign |-> flight.callsign,
     latitude |-> coerce(flight.latitude),
     longitude |-> coerce(flight.longitude),
     altitude |-> flight.altitude,
     on_ground |-> flight.on_ground,
     gate |-> IF truthyText(schedule.gate) THEN val(schedule.gate) ELSE "N/A",
     terminal |-> IF truthyText(schedule.terminal)
                  THEN val(schedule.terminal) ELSE "N/A",
     status |-> determineStatusFromOpenSky(flight),
     schedule |-> schedule]

enrichedFlights(openSkyFlights, aviationStackFlights) ==
    LET scheduleMap == buildScheduleMap(aviationStackFlights) IN
    [i \in 1..Len(openSkyFlights) |-> enrich(scheduleMap, openSkyFlights[i])]

\* FlightMonitorService.generateSampleFlights: one enriched flight
monitorSampleFlights ==
    << [callsign |-> LH123, latitude |-> 500379, longitude |-> 85622,
        altitude |-> 8000 * feetUnit, on_ground |-> FALSE,
        gate |-> "A5", terminal |-> "Terminal 1", status |-> "taxiing",
        schedule |-> Schedule(Some(LH123), "Lufthansa",
                              Some(<<"D","-","A","I","D","E">>),
                              Some("Terminal 1"), Some("A5"), "active")] >>

\* ------------------------------------------------------------ the stores
\* redis.hSet(key, {...}): creates the hash or overwrites its fields; an
\* existing key keeps its expiry
hSet(r, callsign) ==
    IF callsign \in DOMAIN r THEN r
    ELSE r @@ (callsign :> [ttl |-> FALSE])
\* redis.expire(key, 300)
expire(r, callsign) ==
    IF callsign \in DOMAIN r THEN [r EXCEPT ![callsign].ttl = TRUE] ELSE r
\* the key is dropped when its expiry passes
dropKey(r, callsign) == [k \in DOMAIN r \ {callsign} |-> r[k]]

\* aircraft.latitude.toString() and the like throw on a null field before
\* the hSet request is made
hSetThrows(aircraft) == isNull(aircraft.latitude) \/ isNull(aircraft.longitude)

\* variant: the filter matches no document, every operation inserts
updateOneInsert(docs, flight) ==
    Append(docs, [flightNumber |-> flight.flightNumber, flight |-> flight,
                  lastUpdated |-> TRUE])
\* one updateOne of the bulkWrite: filter {flightNumber}, $set {...flight,
\* lastUpdated}, upsert
updateOne(docs, flight) ==
    LET doc == [flightNumber |-> flight.flightNumber, flight |-> flight,
                lastUpdated |-> TRUE]
        hits == { i \in 1..Len(docs) : docs[i].flightNumber = flight.flightNumber }
    IN IF hits = {} THEN Append(docs, doc)
       ELSE [docs EXCEPT ![CHOOSE i \in hits : \A j \in hits : i <= j] = doc]
\* collection.bulkWrite(operations) (ordered): the first n operations applied
RECURSIVE bulkWrite(_, _, _)
bulkWrite(docs, schedules, n) ==
    IF n = 0 THEN docs
    ELSE updateOne(bulkWrite(docs, schedules, n - 1), schedules[n])

\* where storeLivePositions / storeSchedules first suspend, from position i
\* of the positions on: at the hSet of the next aircraft, else at the
\* bulkWrite, else nowhere (storeSchedules returns at once on an empty list)
storeThrowsAt(positions, i) == i <= Len(positions) /\ hSetThrows(positions[i])
nextStorePc(positions, schedules, i) ==
    IF i <= Len(positions) THEN "hSet"
    ELSE IF Len(schedules) > 0 THEN "bulkWrite"
    ELSE "stored"

\* ------------------------------------- one call of the fetching functions
\* Promise.all([p1, p2]): fulfilled with both values, rejected if one is
all2(p1, p2) ==
    IF p1.thrown \/ p2.thrown THEN Thrown ELSE Returned(<<p1.value, p2.value>>)

\* getOpenSkyFlights up to its first request: the one source always sends
\* the credentials first, the other only when OPENSKY_USERNAME and
\* OPENSKY_PASSWORD are set
firstRequest(cl, envCredentials) ==
    IF cl = "part_000" THEN "auth"
    ELSE IF envCredentials THEN "auth" ELSE "anon"
\* a failed request: the inner catch of the one source retries without
\* credentials after the credentialed request; every other failure goes to
\* the outer catch ("caught")
afterRequestError(cl, request) ==
    IF cl = "part_000" /\ request = "auth" THEN "anon" ELSE "caught"

\* getAviationStackFlights up to its first await: without a key it returns
\* the sample flights at once
aviationStart(key) ==
    IF key THEN [st |-> "pending", p |-> Returned(<<>>), source |-> "none"]
    ELSE [st |-> "settled", p |-> Returned(generateSampleFlights), source |-> "nokey"]
\* variant: the catch block rethrows
aviationCatchRethrows == Thrown
\* the catch block of getAviationStackFlights
aviationCatch == Returned(generateSampleFlights)

\* the value getAllFlights returns
jointResult(openSkyFlights, aviationStackFlights) ==
    [livePositions |-> openSkyFlights, schedules |-> aviationStackFlights,
     totalLive |-> Len(openSkyFlights), totalScheduled |-> Len(aviationStackFlights)]

\* getLiveFlights: where the two stores next suspend.  A throw inside
\* storeLivePositions is caught and the function goes on with storeSchedules.
liveStorePc(positions, schedules, i) ==
    IF storeThrowsAt(positions, i)
    THEN nextStorePc(positions, schedules, Len(positions) + 1)
    ELSE nextStorePc(positions, schedules, i)
\* variant: no inner try/catch around storeLivePositions
liveAfterPositionsErrorUncaught(positions, schedules) == "caught"
\* getLiveFlights after a failed store of the positions (its first inner catch)
liveAfterPositionsError(positions, schedules) ==
    nextStorePc(positions, schedules, Len(positions) + 1)
\* variant: no inner try/catch around storeSchedules
liveAfterSchedulesErrorUncaught == "caught"
\* getLiveFlights after a failed bulkWrite (its second inner catch)
liveAfterSchedulesError == "stored"
\* the outer catch of getLiveFlights
liveCatch == monitorSampleFlights

InitCall ==
    [entry |-> "none", pc |-> "idle",
     request |-> "none",     \* the OpenSky request in flight: auth, anon
     requests |-> <<>>,      \* the OpenSky requests issued, in order
     authFailed |-> FALSE,   \* the credentialed request failed
     telemetry |-> "none",   \* how the telemetry source ended: ok, failed
     osky |-> Returned(<<>>), oskySettled |-> FALSE,
     avs |-> aviationStart(FALSE),
     openSkyFlights |-> <<>>, aviationStackFlights |-> <<>>,
     i |-> 0,
     storeFailed |-> FALSE,  \* a store request of this call failed
     outcome |-> "pending",  \* resolved, rejected
     result |-> <<>>]

\* getAllFlights() or getLiveFlights() is called: both fetches run up to
\* their first request
CallStart ==
    /\ call.pc = "idle"
    /\ \E entry \in {"getAllFlights", "getLiveFlights"}, envCredentials \in BOOLEAN :
         LET first == firstRequest(client, envCredentials) IN
         call' = [call EXCEPT !.entry = entry, !.pc = "fetch",
                              !.request = first, !.requests = <<first>>,
                              !.avs = aviationStart(aviationStackKey)]
    /\ UNCHANGED <<client, aviationStackKey, updateInterval, timers, monitoring,
                   cycles, redis, mongo, pure, storing>>

\* the OpenSky request in flight fails (401, timeout, ...)
OpenSkyRequestFails ==
    /\ call.pc = "fetch" /\ ~call.oskySettled
    /\ LET next == afterRequestError(client, call.request) IN
       call' = IF next = "caught"
               THEN [call EXCEPT !.request = "none", !.telemetry = "failed",
                                 !.authFailed = @ \/ call.request = "auth",
                                 !.osky = openSkyCatch(Thrown), !.oskySettled = TRUE]
               ELSE [call EXCEPT !.request = next, !.requests = Append(@, next),
                                 !.authFailed = TRUE]
    /\ UNCHANGED <<client, aviationStackKey, updateInterval, timers, monitoring,
                   cycles, redis, mongo, pure, storing>>

\* the OpenSky request in flight is answered
OpenSkyResponds ==
    /\ call.pc = "fetch" /\ ~call.oskySettled
    /\ \E data \in Responses :
         call' = [call EXCEPT !.request = "none", !.telemetry = "ok",
                              !.osky = openSkyCatch(processStates(client, data)),
                              !.oskySettled = TRUE]
    /\ UNCHANGED <<client, aviationStackKey, updateInterval, timers, monitoring,
                   cycles, redis, mongo, pure, storing>>

\* the AviationStack request fails
AviationRequestFails ==
    /\ call.pc = "fetch" /\ call.avs.st = "pending"
    /\ call' = [call EXCEPT !.avs = [st |-> "settled", p |-> aviationCatch,
                                      source |-> "failed"]]
    /\ UNCHANGED <<client, aviationStackKey, updateInterval, timers, monitoring,
                   cycles, redis, mongo, pure, storing>>

\* the AviationStack request is answered
AviationResponds ==
    /\ call.pc = "fetch" /\ call.avs.st = "pending"
    /\ \E resp \in AviationResponses :
         call' = [call EXCEPT !.avs = [st |-> "settled",
                                       p |-> Returned(processSchedules(resp)),
                                       source |-> IF resp.kind = "data" /\ resp.data = <<>>
                                                  THEN "empty" ELSE resp.kind]]
    /\ UNCHANGED <<client, aviationStackKey, updateInterval, timers, monitoring,
                   cycles, redis, mongo, pure, storing>>

\* getLiveFlights goes on to pc next; "stored": both stores are over, the
\* flights are enriched and returned; "caught": an error reached the outer
\* catch
liveAdvance(c, next) ==
    IF next = "stored"
    THEN [c EXCEPT !.pc = "done", !.outcome = "resolved",
                   !.result = enrichedFlights(c.openSkyFlights, c.aviationStackFlights)]
    ELSE IF next = "caught"
    THEN [c EXCEPT !.pc = "done", !.outcome = "resolved", !.result = liveCatch]
    ELSE [c EXCEPT !.pc = next]

\* both fetches have settled: the await of Promise.all resumes
Joined ==
    /\ call.pc = "fetch" /\ call.oskySettled /\ call.avs.st = "settled"
    /\ LET both == all2(call.osky, call.avs.p) IN
       call' =
         IF call.entry = "getAllFlights"
         THEN IF both.thrown
              THEN [call EXCEPT !.pc = "done", !.outcome = "rejected"]
              ELSE [call EXCEPT !.pc = "done", !.outcome = "resolved",
                                !.openSkyFlights = both.value[1],
                                !.aviationStackFlights = both.value[2],
                                !.result = jointResult(both.value[1], both.value[2])]
         ELSE IF both.thrown
              THEN liveAdvance(call, "caught")
              ELSE liveAdvance([call EXCEPT !.openSkyFlights = both.value[1],
                                            !.aviationStackFlights = both.value[2],
                                            !.i = 1],
                               liveStorePc(both.value[1], both.value[2], 1))
    /\ UNCHANGED <<client, aviationStackKey, updateInterval, timers, monitoring,
                   cycles, redis, mongo, pure, storing>>

\* getLiveFlights: the hSet of aircraft i is answered
LiveHSetDone ==
    /\ call.pc = "hSet"
    /\ redis' = hSet(redis, call.openSkyFlights[call.i].callsign)
    /\ call' = [call EXCEPT !.pc = "expire"]
    /\ UNCHANGED <<client, aviationStackKey, updateInterval, timers, monitoring,
                   cycles, mongo, pure, storing>>

\* getLiveFlights: the hSet of aircraft i fails
LiveHSetFails ==
    /\ call.pc = "hSet"
    /\ call' = liveAdvance([call EXCEPT !.storeFailed = TRUE],
                           liveAfterPositionsError(call.openSkyFlights,
                                                   call.aviationStackFlights))
    /\ UNCHANGED <<client, aviationStackKey, updateInterval, timers, monitoring,
                   cycles, redis, mongo, pure, storing>>

\* getLiveFlights: the expire of aircraft i is answered
LiveExpireDone ==
    /\ call.pc = "expire"
    /\ redis' = expire(redis, call.openSkyFlights[call.i].callsign)
    /\ call' = liveAdvance([call EXCEPT !.i = @ + 1],
                           liveStorePc(call.openSkyFlights,
                                       call.aviationStackFlights, call.i + 1))
    /\ UNCHANGED <<client, aviationStackKey, updateInterval, timers, monitoring,
                   cycles, mongo, pure, storing>>

\* getLiveFlights: the expire of aircraft i fails
LiveExpireFails ==
    /\ call.pc = "expire"
    /\ call' = liveAdvance([call EXCEPT !.storeFailed = TRUE],
                           liveAfterPositionsError(call.openSkyFlights,
                                                   call.aviationStackFlights))
    /\ UNCHANGED <<client, aviationStackKey, updateInterval, timers, monitoring,
                   cycles, redis, mongo, pure, storing>>

\* getLiveFlights: the bulkWrite is answered
LiveBulkWriteDone ==
    /\ call.pc = "bulkWrite"
    /\ mongo' = bulkWrite(mongo, call.aviationStackFlights,
                          Len(call.aviationStackFlights))
    /\ call' = liveAdvance(call, "stored")
    /\ UNCHANGED <<client, aviationStackKey, updateInterval, timers, monitoring,
                   cycles, redis, pure, storing>>

\* getLiveFlights: the bulkWrite fails after its first n operations
LiveBulkWriteFails ==
    /\ call.pc = "bulkWrite"
    /\ \E n \in 0..(Len(call.aviationStackFlights) - 1) :
         mongo' = bulkWrite(mongo, call.aviationStackFlights, n)
    /\ call' = liveAdvance([call EXCEPT !.storeFailed = TRUE], liveAfterSchedulesError)
    /\ UNCHANGED <<client, aviationStackKey, updateInterval, timers, monitoring,
                   cycles, redis, pure, storing>>

\* no function has been applied
NotApplied == [fn |-> "none"]

\* the functions that call storeSchedules
Callers == {"updateFlightData", "getLiveFlights"}
\* no call of storeSchedules is in progress
Idle == [schedules |-> <<>>, n |-> 0]
NotStoring == [w \in Callers |-> Idle]

InitConfig ==
    /\ client \in {"part_000", "apiclient"}
    /\ aviationStackKey \in BOOLEAN

InitCallSpec ==
    /\ InitConfig
    /\ updateInterval = 0
    /\ timers = <<>>
    /\ monitoring = FALSE
    /\ cycles = <<>>
    /\ redis = <<>>
    /\ mongo = <<>>
    /\ call = InitCall
    /\ pure = NotApplied
    /\ storing = NotStoring

NextCall ==
    \/ CallStart
    \/ OpenSkyRequestFails
    \/ OpenSkyResponds
    \/ AviationRequestFails
    \/ AviationResponds
    \/ Joined
    \/ LiveHSetDone
    \/ LiveHSetFails
    \/ LiveExpireDone
    \/ LiveExpireFails
    \/ LiveBulkWriteDone
    \/ LiveBulkWriteFails

SpecCall == InitCallSpec /\ [][NextCall]_vars

\* --------------------------------------- FlightMonitorService monitoring
\* how getOpenSkyFlights and getAviationStackFlights can settle
openSkyOutcomes(cl, responses) ==
    {openSkyCatch(Thrown)} \cup { openSkyCatch(processStates(cl, d)) : d \in responses }
aviationOutcomes(key, responses) ==
    IF key
    THEN {aviationCatch} \cup { Returned(processSchedules(r)) : r \in responses }
    ELSE { aviationStart(key).p }
\* getAllFlights: the joint await, then the joint record; a rejection is
\* rethrown
getAllFlights(osky, avs) ==
    LET both == all2(osky, avs) IN
    IF both.thrown THEN Thrown
    ELSE Returned(jointResult(both.value[1], both.value[2]))

\* the feeds as the monitoring cycles see them: responses made of these
MonitorRawStates ==
    { RawState(Some(<<"K","L","1","2"," "," "," "," ">>),
               Some(500380), Some(85620), Some(3000), Some(FALSE)) }
MonitorResponses ==
    { Some(q) : q \in SeqsUpTo({ Some(r) : r \in MonitorRawStates }, MaxStates) }
MonitorSchedules ==
    { Schedule(Some(KL12), "KLM", None, Some("Terminal 2"), Some("D2"), "delayed") }
MonitorAviationResponses ==
    { [kind |-> "data", data |-> q] : q \in SeqsUpTo(MonitorSchedules, MaxSchedules) }

\* updateFlightData: where the stores next suspend; a throw or a failed
\* request inside either store reaches the catch block ("caught")
cycleStorePc(positions, schedules, i) ==
    IF storeThrowsAt(positions, i) THEN "caught"
    ELSE nextStorePc(positions, schedules, i)

NewCycle ==
    [pc |-> "fetch", positions |-> <<>>, schedules |-> <<>>, i |-> 0,
     stopPending |-> FALSE]    \* history: in progress, and its fetch was in
                               \* flight when stopMonitoring returned
\* cycle c goes on to pc next; "stored": updateFlightData is over by its
\* last statement, "caught": by its catch block: it is no longer in progress
without(cs, c) == [j \in 1..(Len(cs) - 1) |-> IF j < c THEN cs[j] ELSE cs[j + 1]]
cycleAdvance(cs, c, next) ==
    IF next \in {"stored", "caught"} THEN without(cs, c)
    ELSE [cs EXCEPT ![c].pc = next]

\* startMonitoring(): the initial updateFlightData runs up to its fetch, then
\* setInterval registers a new timer and its handle is stored
StartMonitoring ==
    /\ Len(timers) < MaxStarts
    /\ Len(cycles) < MaxCycles
    /\ cycles' = Append(cycles, NewCycle)
    /\ timers' = Append(timers, TRUE)
    /\ updateInterval' = Len(timers) + 1
    /\ monitoring' = TRUE
    /\ UNCHANGED <<client, aviationStackKey, redis, mongo, call, pure, storing>>

\* stopMonitoring(): clearInterval on the stored handle, if any
StopMonitoring ==
    /\ timers' = IF updateInterval # 0
                 THEN [timers EXCEPT ![updateInterval] = FALSE] ELSE timers
    /\ monitoring' = FALSE
    /\ cycles' = [c \in DOMAIN cycles |->
                     IF cycles[c].pc = "fetch"
                     THEN [cycles[c] EXCEPT !.stopPending = TRUE] ELSE cycles[c]]
    /\ UNCHANGED <<client, aviationStackKey, updateInterval, redis, mongo, call, pure, storing>>

\* a registered timer fires: updateFlightData runs up to its fetch
Tick(t) ==
    /\ timers[t]
    /\ Len(cycles) < MaxCycles
    /\ cycles' = Append(cycles, NewCycle)
    /\ UNCHANGED <<client, aviationStackKey, updateInterval, timers, monitoring,
                   redis, mongo, call, pure, storing>>

\* the await of getAllFlights resumes in cycle c
CycleFetched(c) ==
    /\ cycles[c].pc = "fetch"
    /\ \E osky \in openSkyOutcomes(client, MonitorResponses),
          avs \in aviationOutcomes(aviationStackKey, MonitorAviationResponses) :
         LET flightData == getAllFlights(osky, avs) IN
         cycles' =
            IF flightData.thrown THEN cycleAdvance(cycles, c, "caught")
            ELSE cycleAdvance([cycles EXCEPT
                                  ![c].positions = flightData.value.livePositions,
                                  ![c].schedules = flightData.value.schedules,
                                  ![c].i = 1],
                              c,
                              cycleStorePc(flightData.value.livePositions,
                                           flightData.value.schedules, 1))
    /\ UNCHANGED <<client, aviationStackKey, updateInterval, timers, monitoring,
                   redis, mongo, call, pure, storing>>

\* cycle c: the hSet of aircraft i is answered
CycleHSetDone(c) ==
    /\ cycles[c].pc = "hSet"
    /\ redis' = hSet(redis, cycles[c].positions[cycles[c].i].callsign)
    /\ cycles' = cycleAdvance(cycles, c, "expire")
    /\ UNCHANGED <<client, aviationStackKey, updateInterval, timers, monitoring,
                   mongo, call, pure, storing>>

\* cycle c: the hSet of aircraft i fails
CycleHSetFails(c) ==
    /\ cycles[c].pc = "hSet"
    /\ cycles' = cycleAdvance(cycles, c, "caught")
    /\ UNCHANGED <<client, aviationStackKey, updateInterval, timers, monitoring,
                   redis, mongo, call, pure, storing>>

\* cycle c: the expire of aircraft i is answered
CycleExpireDone(c) ==
    /\ cycles[c].pc = "expire"
    /\ redis' = expire(redis, cycles[c].positions[cycles[c].i].callsign)
    /\ cycles' = cycleAdvance([cycles EXCEPT ![c].i = @ + 1], c,
                              cycleStorePc(cycles[c].positions, cycles[c].schedules,
                                           cycles[c].i + 1))
    /\ UNCHANGED <<client, aviationStackKey, updateInterval, timers, monitoring,
                   mongo, call, pure, storing>>

\* cycle c: the expire of aircraft i fails
CycleExpireFails(c) ==
    /\ cycles[c].pc = "expire"
    /\ cycles' = cycleAdvance(cycles, c, "caught")
    /\ UNCHANGED <<client, aviationStackKey, updateInterval, timers, monitoring,
                   redis, mongo, call, pure, storing>>

\* cycle c: the bulkWrite is answered
CycleBulkWriteDone(c) ==
    /\ cycles[c].pc = "bulkWrite"
    /\ mongo' = bulkWrite(mongo, cycles[c].schedules, Len(cycles[c].schedules))
    /\ cycles' = cycleAdvance(cycles, c, "stored")
    /\ UNCHANGED <<client, aviationStackKey, updateInterval, timers, monitoring,
                   redis, call, pure, storing>>

\* cycle c: the bulkWrite fails after its first n operations
CycleBulkWriteFails(c) ==
    /\ cycles[c].pc = "bulkWrite"
    /\ \E n \in 0..(Len(cycles[c].schedules) - 1) :
         mongo' = bulkWrite(mongo, cycles[c].schedules, n)
    /\ cycles' = cycleAdvance(cycles, c, "caught")
    /\ UNCHANGED <<client, aviationStackKey, updateInterval, timers, monitoring,
                   redis, call, pure, storing>>

\* the expiry of a key of the position cache passes
KeyExpires(k) ==
    /\ redis[k].ttl
    /\ redis' = dropKey(redis, k)
    /\ UNCHANGED <<client, aviationStackKey, updateInterval, timers, monitoring,
                   cycles, mongo, call, pure, storing>>

\* the monitor service loads '../utils/apiclient'
Init ==
    /\ client = "apiclient"
    /\ aviationStackKey \in BOOLEAN
    /\ updateInterval = 0
    /\ timers = <<>>
    /\ monitoring = FALSE
    /\ cycles = <<>>
    /\ redis = <<>>
    /\ mongo = <<>>
    /\ call = InitCall
    /\ pure = NotApplied
    /\ storing = NotStoring

Next ==
    \/ StartMonitoring
    \/ StopMonitoring
    \/ \E t \in DOMAIN timers : Tick(t)
    \/ \E c \in DOMAIN cycles : CycleFetched(c)
    \/ \E c \in DOMAIN cycles : CycleHSetDone(c)
    \/ \E c \in DOMAIN cycles : CycleHSetFails(c)
    \/ \E c \in DOMAIN cycles : CycleExpireDone(c)
    \/ \E c \in DOMAIN cycles : CycleExpireFails(c)
    \/ \E c \in DOMAIN cycles : CycleBulkWriteDone(c)
    \/ \E c \in DOMAIN cycles : CycleBulkWriteFails(c)
    \/ \E k \in DOMAIN redis : KeyExpires(k)

Spec == Init /\ [][Next]_vars

\* ------------------------------------------- the correlator on one flight
\* flight numbers the schedule feed may deliver: one that is made of digits
\* only, one that holds the same digits after a letter
N123 == <<"1","2","3">>
X12 == <<"X","1","2">>
N12AB == <<"1","2","A","B">>
EnrichSchedules ==
    { Schedule(Some(X12), "Air X", None, Some("Terminal 1"), Some("X1"), "scheduled"),
      Schedule(Some(N123), "Air N", None, Some("Terminal 2"), None, "scheduled"),
      Schedule(Some(KL99), "KLM", None, Some("Terminal 2"), Some("D1"), "scheduled"),
      Schedule(Some(KL12), "KLM", None, Some("Terminal 2"), Some("D2"), "delayed"),
      Schedule(Some(<<"Q","R","5">>), "Qatar Airways", Some(KL12), None, None, "active"),
      Schedule(None, "No Number", Some(ZZ9), Some("Terminal 3"), Some("E1"), "active") }
\* the positions getOpenSkyFlights may deliver, by callsign
EnrichFlights ==
    { withDistance(normalize(RawState(Some(cs), Some(500380), Some(85620), alt, gnd))) :
        cs \in {N12AB, KL12, LH123, ZZ9, XX77},
        alt \in {Some(3000)}, gnd \in {Some(FALSE)} }

\* the callback of openSkyFlights.map in getLiveFlights, on one flight and the
\* scheduleMap built from one list of schedules
EnrichFlight ==
    /\ pure.fn = "none"
    /\ \E schedules \in SeqsUpTo(EnrichSchedules, MaxSchedules), flight \in EnrichFlights :
         pure' = [fn |-> "enrich", schedules |-> schedules, flight |-> flight,
                  result |-> enrich(buildScheduleMap(schedules), flight)]
    /\ UNCHANGED <<client, aviationStackKey, updateInterval, timers, monitoring,
                   cycles, redis, mongo, call, storing>>

NextEnrich == EnrichFlight
SpecEnrich == InitCallSpec /\ [][NextEnrich]_vars

\* the entries of the index in the order their keys were inserted
insertedHits(m, callsign) == { i \in 1..Len(m) : fallbackHit(m[i], callsign) }
firstInserted(m, callsign) ==
    m[CHOOSE i \in insertedHits(m, callsign) :
          \A j \in insertedHits(m, callsign) : i <= j].value

\* C11: when no flight number of the index equals the callsign and some entry
\* satisfies the fallback condition, the schedule selected is the first such
\* entry in the order the keys were inserted into the index, also when some
\* keys are made of digits only.
C11_FallbackInsertionOrder ==
    pure.fn = "enrich" =>
        LET m == buildScheduleMap(pure.schedules)
            callsign == pure.flight.callsign
        IN (~mapHas(m, callsign) /\ insertedHits(m, callsign) # {}) =>
               pure.result.schedule = firstInserted(m, callsign)

\* C12: a flight that matches no schedule by either rule carries the
\* synthesized schedule (Unknown Airline, Unknown Airport / N/A, in-flight,
\* registration = callsign) and gate and terminal N/A; and every enriched
\* flight has a schedule with a flight number or an airline, a gate and a
\* terminal.
C12_UnmatchedSynthesis ==
    pure.fn = "enrich" =>
        LET m == buildScheduleMap(pure.schedules)
            callsign == pure.flight.callsign
            r == pure.result
        IN /\ (~mapHas(m, callsign) /\ insertedHits(m, callsign) = {}) =>
                /\ r.schedule.flightNumber = Some(callsign)
                /\ r.schedule.airline = "Unknown Airline"
                /\ r.schedule.departureAirport = "Unknown Airport"
                /\ r.schedule.departureIata = "N/A"
                /\ r.schedule.arrivalAirport = "Unknown Airport"
                /\ r.schedule.arrivalIata = "N/A"
                /\ r.schedule.status = "in-flight"
                /\ r.schedule.registration = Some(callsign)
                /\ r.gate = "N/A" /\ r.terminal = "N/A"
           /\ r.gate # "" /\ r.terminal # ""
           /\ r.schedule \in { m[i].value : i \in 1..Len(m) }
                            \cup {placeholderSchedule(callsign)}
C12_Witness ==
    /\ pure.fn = "enrich"
    /\ pure.flight.callsign = ZZ9
    /\ Len(pure.schedules) = 2
    /\ pure.result.schedule.airline = "Unknown Airline"
    /\ pure.result.gate = "N/A"

\* ------------------------------------------------- the status resolvers
\* A schedule document as the resolvers read it: status (null or a string),
\* departure and arrival (null, or a part whose actual is null or a time).
\* Live data is the hash read from the position cache: null, or a hash whose
\* on_ground is absent or the text "true" / "false".
Part(actual) == [actual |-> actual]
ScheduleDocs ==
    [status : {None, Some("scheduled"), Some("cancelled"), Some("delayed")},
     departure : {None, Some(Part(None)), Some(Part(Some("10:05")))},
     arrival : {None, Some(Part(None)), Some(Part(Some("12:40")))}]
LiveHashes ==
    {None} \cup { Some([on_ground |-> g]) : g \in {None, Some("true"), Some("false")} }
liveOnGround(liveData) == ~isNull(liveData) /\ val(liveData).on_ground = Some("true")

\* variant: the on-ground flag is looked at after the delay
passengerDetermineStatusDelayFirst(schedule, liveData) ==
    IF schedule.status = Some("cancelled") THEN Returned("Cancelled")
    ELSE IF isNull(schedule.arrival) THEN Thrown
    ELSE IF ~isNull(val(schedule.arrival).actual) THEN Returned("Landed")
    ELSE IF isNull(schedule.departure) THEN Thrown
    ELSE IF ~isNull(val(schedule.departure).actual) THEN Returned("In Flight")
    ELSE IF schedule.status = Some("delayed") THEN Returned("Delayed")
    ELSE IF liveOnGround(liveData) THEN Returned("Boarding")
    ELSE Returned("On Time")
\* PassengerService.determineStatus(schedule, liveData): reading .actual of
\* a part that is not there throws a TypeError
passengerDetermineStatus(schedule, liveData) ==
    IF schedule.status = Some("cancelled") THEN Returned("Cancelled")
    ELSE IF isNull(schedule.arrival) THEN Thrown
    ELSE IF ~isNull(val(schedule.arrival).actual) THEN Returned("Landed")
    ELSE IF isNull(schedule.departure) THEN Thrown
    ELSE IF ~isNull(val(schedule.departure).actual) THEN Returned("In Flight")
    ELSE IF liveOnGround(liveData) THEN Returned("Boarding")
    ELSE IF schedule.status = Some("delayed") THEN Returned("Delayed")
    ELSE Returned("On Time")

\* FlightMonitorService.determineStatus(liveData, schedule): reading
\* .on_ground of null live data throws a TypeError; schedule may be null
determineStatus(liveData, schedule) ==
    IF isNull(liveData) THEN Thrown
    ELSE IF val(liveData).on_ground = Some("true") THEN Returned("on_ground")
    ELSE IF ~isNull(schedule)
         THEN Returned(IF truthyText(val(schedule).status)
                       THEN val(val(schedule).status) ELSE "in_flight")
    ELSE Returned("in_flight")

\* the altitudes (1e-5 ft) a live position is resolved at: below sea level,
\* 0, and just below, at and just above either threshold
StatusAltitudes ==
    { -100 * feetUnit, 0, 1000 * feetUnit - 1, 1000 * feetUnit, 1000 * feetUnit + 1,
      3000 * feetUnit, 5000 * feetUnit - 1, 5000 * feetUnit, 5000 * feetUnit + 1,
      8000 * feetUnit }

ResolveFromOpenSky ==
    /\ pure.fn = "none"
    /\ \E g \in BOOLEAN, a \in StatusAltitudes :
         LET flight == [on_ground |-> g, altitude |-> a] IN
         pure' = [fn |-> "determineStatusFromOpenSky", flight |-> flight,
                  result |-> Returned(determineStatusFromOpenSky(flight))]
    /\ UNCHANGED <<client, aviationStackKey, updateInterval, timers, monitoring,
                   cycles, redis, mongo, call, storing>>

ResolvePassenger ==
    /\ pure.fn = "none"
    /\ \E schedule \in ScheduleDocs, liveData \in LiveHashes :
         pure' = [fn |-> "passengerDetermineStatus", schedule |-> schedule,
                  liveData |-> liveData,
                  result |-> passengerDetermineStatus(schedule, liveData)]
    /\ UNCHANGED <<client, aviationStackKey, updateInterval, timers, monitoring,
                   cycles, redis, mongo, call, storing>>

ResolveMonitor ==
    /\ pure.fn = "none"
    /\ \E schedule \in {None} \cup { Some(d) : d \in ScheduleDocs }, liveData \in LiveHashes :
         pure' = [fn |-> "determineStatus", schedule |-> schedule,
                  liveData |-> liveData,
                  result |-> determineStatus(liveData, schedule)]
    /\ UNCHANGED <<client, aviationStackKey, updateInterval, timers, monitoring,
                   cycles, redis, mongo, call, storing>>

NextStatus ==
    \/ ResolveFromOpenSky
    \/ ResolvePassenger
    \/ ResolveMonitor
SpecStatus == InitCallSpec /\ [][NextStatus]_vars

\* C13: a live position resolves to exactly one tag, in this order: on the
\* ground -> on-ground whatever the altitude; else below 1000 ft -> taxiing;
\* else above 5000 ft -> in-flight; else (1000 to 5000 ft, both included)
\* -> climbing.
C13_LiveStatusOrder ==
    pure.fn = "determineStatusFromOpenSky" =>
        LET g == pure.flight.on_ground
            a == pure.flight.altitude
            tag == pure.result.value
        IN /\ ~pure.result.thrown
           /\ tag \in {"on-ground", "taxiing", "in-flight", "climbing"}
           /\ (tag = "on-ground") <=> g
           /\ (tag = "taxiing") <=> (~g /\ a <= 1000 * feetUnit - 1)
           /\ (tag = "in-flight") <=> (~g /\ a >= 5000 * feetUnit + 1)
           /\ (tag = "climbing") <=> (~g /\ a >= 1000 * feetUnit /\ a <= 5000 * feetUnit)
C13_Witness ==
    /\ pure.fn = "determineStatusFromOpenSky"
    /\ ~pure.flight.on_ground /\ pure.flight.altitude = 5000 * feetUnit
    /\ pure.result = Returned("climbing")

\* C14: for a schedule that has its departure and arrival parts, the first
\* rule that applies gives the status: cancelled -> Cancelled; arrival.actual
\* present -> Landed; departure.actual present -> In Flight; live on_ground
\* true -> Boarding; delayed -> Delayed; else On Time.
C14_ScheduleStatusOrder ==
    (/\ pure.fn = "passengerDetermineStatus"
     /\ ~isNull(pure.schedule.departure) /\ ~isNull(pure.schedule.arrival)) =>
        LET cancelled == pure.schedule.status = Some("cancelled")
            landed == ~isNull(val(pure.schedule.arrival).actual)
            departed == ~isNull(val(pure.schedule.departure).actual)
            ground == liveOnGround(pure.liveData)
            delayed == pure.schedule.status = Some("delayed")
            tag == pure.result.value
        IN /\ ~pure.result.thrown
           /\ cancelled => tag = "Cancelled"
           /\ (~cancelled /\ landed) => tag = "Landed"
           /\ (~cancelled /\ ~landed /\ departed) => tag = "In Flight"
           /\ (~cancelled /\ ~landed /\ ~departed /\ ground) => tag = "Boarding"
           /\ (~cancelled /\ ~landed /\ ~departed /\ ~ground /\ delayed)
                  => tag = "Delayed"
           /\ (~cancelled /\ ~landed /\ ~departed /\ ~ground /\ ~delayed)
                  => tag = "On Time"
C14_Witness ==
    /\ pure.fn = "passengerDetermineStatus"
    /\ pure.schedule.status = Some("delayed")
    /\ pure.schedule.departure = Some(Part(None))
    /\ pure.schedule.arrival = Some(Part(None))
    /\ liveOnGround(pure.liveData)
    /\ pure.result = Returned("Boarding")

\* C15: every resolver returns a tag for every live signal, absent live data
\* included, and every schedule, one without its departure, arrival or
\* status included: none raises an error.
C15_ResolversTotal ==
    pure.fn \in {"determineStatusFromOpenSky", "passengerDetermineStatus",
                 "determineStatus"} =>
        /\ ~pure.result.thrown
        /\ pure.result.value # ""

\* ------------------------------------------------------- the deduplicator
\* flights as removeDuplicateFlights reads them: callsign, latitude, longitude
Position(cs, lat, lon) == [callsign |-> cs, latitude |-> Some(lat), longitude |-> Some(lon)]
DedupFlights ==
    { Position(KL12, 500380, 85620),
      Position(KL12, 500381, 85621),    \* the same at 3 decimals
      Position(KL12, 500386, 85620),    \* another latitude at 3 decimals
      Position(LH123, 500380, 85620),
      Position(ZZ9, 500000, 4),         \* longitude 0.0004
      Position(ZZ9, 500000, -1) }       \* longitude -0.0001

Deduplicate ==
    /\ pure.fn = "none"
    /\ \E flights \in SeqsUpTo(DedupFlights, MaxFlights) :
         LET unique == removeDuplicateFlights(flights) IN
         pure' = [fn |-> "removeDuplicateFlights", flights |-> flights,
                  result |-> unique, again |-> removeDuplicateFlights(unique)]
    /\ UNCHANGED <<client, aviationStackKey, updateInterval, timers, monitoring,
                   cycles, redis, mongo, call, storing>>

NextDedup == Deduplicate
SpecDedup == InitCallSpec /\ [][NextDedup]_vars

\* a coordinate in 1e-4 degree rounded to 3 decimals, in 1e-3 degree
round3(v) == IF v < 0 THEN -((5 - v) \div 10) ELSE (v + 5) \div 10
roundedFingerprint(f) ==
    <<f.callsign, round3(val(f.latitude)), round3(val(f.longitude))>>
\* the elements of xs that are the first with their rounded fingerprint
RECURSIVE firstOccurrences(_)
firstOccurrences(xs) ==
    IF xs = <<>> THEN <<>>
    ELSE LET n == Len(xs)
             front == firstOccurrences(SubSeq(xs, 1, n - 1))
         IN IF \E i \in 1..(n - 1) : roundedFingerprint(xs[i]) = roundedFingerprint(xs[n])
            THEN front ELSE Append(front, xs[n])

\* C16: removeDuplicateFlights returns, in input order, the first occurrence
\* of each fingerprint (callsign, latitude and longitude rounded to 3
\* decimals): every fingerprint of the input is in the output exactly once.
C16_FirstOccurrenceKept ==
    pure.fn = "removeDuplicateFlights" =>
        /\ pure.result = firstOccurrences(pure.flights)
        /\ \A i \in 1..Len(pure.flights) :
               Cardinality({ k \in 1..Len(pure.result) :
                               roundedFingerprint(pure.result[k])
                               = roundedFingerprint(pure.flights[i]) }) = 1

\* C17: removeDuplicateFlights applied to its own result gives that result.
C17_DedupIdempotent ==
    pure.fn = "removeDuplicateFlights" => pure.again = pure.result
C17_Witness ==
    /\ pure.fn = "removeDuplicateFlights"
    /\ Len(pure.flights) = 3 /\ Len(pure.result) = 2
    /\ pure.flights[1].callsign = KL12 /\ pure.flights[3].callsign = KL12
    /\ pure.again = pure.result

\* ------------------------------------------------------ the zone filter
\* the states of a response: those of RawStates and a second aircraft at the
\* coordinates of the first (the same distance)
ZoneRawStates ==
    RawStates \cup
    { RawState(Some(KL99), Some(500380), Some(85620), Some(1000), Some(FALSE)) }
ZoneResponses ==
    { Some(q) : q \in SeqsUpTo({None} \cup { Some(r) : r \in ZoneRawStates }, MaxStates) }

\* getOpenSkyFlights on one answered request
FilterZone ==
    /\ pure.fn = "none"
    /\ \E data \in ZoneResponses :
         pure' = [fn |-> "getOpenSkyFlights", data |-> data,
                  result |-> openSkyCatch(processStates(client, data))]
    /\ UNCHANGED <<client, aviationStackKey, updateInterval, timers, monitoring,
                   cycles, redis, mongo, call, storing>>

NextZone == FilterZone
SpecZone == InitCallSpec /\ [][NextZone]_vars

\* the normalized positions of a response, in the order of the response
normalizedPositions(data) ==
    LET states == val(data)
        valid == SelectSeq(states, LAMBDA st : ~isNull(st))
    IN [i \in 1..Len(valid) |-> withDistance(normalize(val(valid[i])))]
atDistance(fs, d) == SelectSeq(fs, LAMBDA f : f.distance = d)

\* C18: the positions getOpenSkyFlights returns are ascending by distance,
\* none is beyond the configured radius, and for every distance up to the
\* configured radius the positions returned at that distance are exactly the
\* normalized positions of the response at that distance, in their original
\* order.
C18_ZoneFilterExact ==
    pure.fn = "getOpenSkyFlights" =>
        LET out == pure.result.value
            all == normalizedPositions(pure.data)
        IN /\ ~pure.result.thrown
           /\ \A i \in 1..Len(out) : out[i].distance <= configuredRadiusM(client)
           /\ \A i, j \in 1..Len(out) : i < j => out[i].distance <= out[j].distance
           /\ \A k \in 1..Len(all) :
                  all[k].distance <= configuredRadiusM(client) =>
                      atDistance(out, all[k].distance) = atDistance(all, all[k].distance)

\* the non-null entries of a response, in the order of the response
validEntries(data) == MapSeq(SelectSeq(val(data), LAMBDA st : ~isNull(st)), val)

\* C22: for every entry of a response that is not null, the normalized
\* position has the defaults in place of the fields that are null (callsign
\* UNKNOWN, altitude 0, on_ground false), and when it is within the radius of
\* the filter it is among the positions getOpenSkyFlights returns, whatever
\* the other entries of the response are.
C22_NormalizationTotal ==
    pure.fn = "getOpenSkyFlights" =>
        LET raw == validEntries(pure.data)
            all == normalizedPositions(pure.data)
            out == pure.result.value
        IN \A k \in 1..Len(raw) :
              /\ isNull(raw[k].cs) => all[k].callsign = UNKNOWN
              /\ isNull(raw[k].alt) => all[k].altitude = 0
              /\ isNull(raw[k].gnd) => all[k].on_ground = FALSE
              /\ all[k].distance <= airportRadiusM(client) =>
                     \E i \in 1..Len(out) : out[i] = all[k]

\* --------------------------------------------------------- the normalizer
\* the states of a response: those of RawStates, an aircraft below sea level
\* (a negative altitude in metres), and callsigns that are made of blanks
\* only or empty
NormRawStates ==
    RawStates \cup
    { RawState(Some(KL99), Some(500380), Some(85620), Some(-50), Some(FALSE)),
      RawState(Some(<<" "," "," "," "," "," "," "," ">>),
               Some(500381), Some(85621), Some(3000), Some(FALSE)),
      RawState(Some(<<>>), Some(500380), Some(85624), Some(3000), Some(FALSE)) }
NormResponses ==
    { Some(q) : q \in SeqsUpTo({None} \cup { Some(r) : r \in NormRawStates }, MaxStates) }
\* state[9], the velocity in m/s: null or a number
RawVelocities == {None, Some(0), Some(250)}

msToKnots == 194384   \* 1.94384 in units of 1e-5
\* velocity: state[9] ? state[9] * 1.94384 : 0
normalizeVelocity(velocity) ==
    IF ~isNull(velocity) /\ val(velocity) # 0 THEN val(velocity) * msToKnots ELSE 0

\* the callback of the first .map on one state vector
NormalizeRecord ==
    /\ pure.fn = "none"
    /\ \E state \in NormRawStates, velocity \in RawVelocities :
         pure' = [fn |-> "normalize", state |-> state, velocity |-> velocity,
                  result |-> normalize(state)
                             @@ [velocity |-> normalizeVelocity(velocity)]]
    /\ UNCHANGED <<client, aviationStackKey, updateInterval, timers, monitoring,
                   cycles, redis, mongo, call, storing>>

\* getOpenSkyFlights on one answered request
NormalizeResponse ==
    /\ pure.fn = "none"
    /\ \E data \in NormResponses :
         pure' = [fn |-> "getOpenSkyFlights", data |-> data,
                  result |-> openSkyCatch(processStates(client, data))]
    /\ UNCHANGED <<client, aviationStackKey, updateInterval, timers, monitoring,
                   cycles, redis, mongo, call, storing>>

NextNormalize ==
    \/ NormalizeRecord
    \/ NormalizeResponse
SpecNormalize == InitCallSpec /\ [][NextNormalize]_vars

\* C23: the normalizer gives an altitude and a velocity that are not below
\* zero (0 for a null one), and every position getOpenSkyFlights returns has
\* an altitude not below zero, a latitude within [-90, 90] and a longitude
\* within [-180, 180].
C23_PositionRanges ==
    /\ pure.fn = "normalize" =>
           /\ pure.result.altitude >= 0
           /\ pure.result.velocity >= 0
           /\ isNull(pure.state.alt) => pure.result.altitude = 0
           /\ isNull(pure.velocity) => pure.result.velocity = 0
    /\ pure.fn = "getOpenSkyFlights" =>
           \A i \in 1..Len(pure.result.value) :
               LET f == pure.result.value[i] IN
               /\ f.altitude >= 0
               /\ ~isNull(f.latitude) /\ ~isNull(f.longitude)
               /\ -900000 <= val(f.latitude) /\ val(f.latitude) <= 900000
               /\ -1800000 <= val(f.longitude) /\ val(f.longitude) <= 1800000

\* C28: the callsign of a normalized position is not empty and has no blank
\* at either end; it is UNKNOWN when the raw callsign is null, empty or made
\* of blanks only; and no position getOpenSkyFlights returns has an empty
\* callsign.
C28_CallsignNeverEmpty ==
    /\ pure.fn = "normalize" =>
           /\ pure.result.callsign # <<>>
           /\ trim(pure.result.callsign) = pure.result.callsign
           /\ (isNull(pure.state.cs) \/ trim(val(pure.state.cs)) = <<>>) =>
                  pure.result.callsign = UNKNOWN
    /\ pure.fn = "getOpenSkyFlights" =>
           \A i \in 1..Len(pure.result.value) : pure.result.value[i].callsign # <<>>

\* ------------------------------------------------------ the bounding boxes
\* Degrees are integers in units of 1e-4 degree, distances are whole km,
\* cosines are integers in units of 1e-4; a quotient is rounded to nearest.
Max(a, b) == IF a > b THEN a ELSE b
roundDiv(a, b) ==
    LET n == IF b < 0 THEN -a ELSE a
        d == IF b < 0 THEN -b ELSE b
    IN IF n < 0 THEN -((2 * (-n) + d) \div (2 * d)) ELSE (2 * n + d) \div (2 * d)

kmPerDegree == 11132   \* 111.32 km, in units of 1e-2 km
maxBoxSize == 500
overlap == 50

\* km / 111.32, in 1e-4 degree
kmToDegrees(km) == roundDiv(km * 1000000, kmPerDegree)

\* Math.cos(this.toRad(lat)) at the latitudes the model reaches; below zero
\* beyond either pole
cosE4(lat) ==
    CASE lat = (-420848) -> 7422
      [] lat = (-400636) -> 7653
      [] lat = (-380424) -> 7876
      [] lat = (-360212) -> 8088
      [] lat = (-340000) -> 8290
      [] lat = (-319788) -> 8482
      [] lat = (-299576) -> 8664
      [] lat = (-279364) -> 8835
      [] lat = (-259152) -> 8994
      [] lat = (-80848) -> 9901
      [] lat = (-60636) -> 9944
      [] lat = (-40424) -> 9975
      [] lat = (-20212) -> 9994
      [] lat = 0 -> 10000
      [] lat = 20212 -> 9994
      [] lat = 40424 -> 9975
      [] lat = 60636 -> 9944
      [] lat = 80848 -> 9901
      [] lat = 419531 -> 7437
      [] lat = 439743 -> 7197
      [] lat = 459955 -> 6947
      [] lat = 480167 -> 6689
      [] lat = 500379 -> 6423
      [] lat = 520591 -> 6148
      [] lat = 540803 -> 5867
      [] lat = 561015 -> 5577
      [] lat = 581227 -> 5281
      [] lat = 719152 -> 3104
      [] lat = 739364 -> 2767
      [] lat = 759576 -> 2426
      [] lat = 779788 -> 2083
      [] lat = 800000 -> 1736
      [] lat = 820212 -> 1388
      [] lat = 840424 -> 1038
      [] lat = 860636 -> 686
      [] lat = 880848 -> 334
      [] lat = (-970848) -> (-1233)
      [] lat = (-950636) -> (-883)
      [] lat = (-930424) -> (-531)
      [] lat = (-910212) -> (-178)
      [] lat = (-890000) -> 175
      [] lat = (-869788) -> 527
      [] lat = (-849576) -> 879
      [] lat = (-829364) -> 1230
      [] lat = (-809152) -> 1579
      [] lat = 809152 -> 1579
      [] lat = 829364 -> 1230
      [] lat = 849576 -> 879
      [] lat = 869788 -> 527
      [] lat = 890000 -> 175
      [] lat = 910212 -> (-178)
      [] lat = 930424 -> (-531)
      [] lat = 950636 -> (-883)
      [] lat = 970848 -> (-1233)

\* km / (111.32 * Math.cos(this.toRad(lat))), in 1e-4 degree
kmToLonDegrees(km, lat) == roundDiv(kmToDegrees(km) * 10000, cosE4(lat))

\* createBoundingBox(centerLat, centerLon, halfSizeKm)
createBoundingBox(centerLat, centerLon, halfSizeKm) ==
    LET latDelta == kmToDegrees(halfSizeKm)
        lonDelta == kmToLonDegrees(halfSizeKm, centerLat)
    IN [lamin |-> Max(-900000, centerLat - latDelta),
        lomin |-> Max(-1800000, centerLon - lonDelta),
        lamax |-> Min(900000, centerLat + latDelta),
        lomax |-> Min(1800000, centerLon + lonDelta)]

\* variant: the quotient is rounded down and one is added
numBoxesFloor(radiusKm) == radiusKm \div maxBoxSize + 1
\* Math.ceil(radiusKm / maxBoxSize)
numBoxesOf(radiusKm) == (radiusKm + maxBoxSize - 1) \div maxBoxSize

\* (i - (numBoxes - 1) / 2) * (maxBoxSize - overlap): a whole number of km,
\* (maxBoxSize - overlap) being even
gridOffset(i, numBoxes) == ((2 * i - (numBoxes - 1)) * (maxBoxSize - overlap)) \div 2

\* the box pushed by the loops at indices i, j
gridBox(centerLat, centerLon, numBoxes, i, j) ==
    LET boxLat == centerLat + kmToDegrees(gridOffset(i, numBoxes))
        boxLon == centerLon + kmToLonDegrees(gridOffset(j, numBoxes), centerLat)
    IN createBoundingBox(boxLat, boxLon, maxBoxSize \div 2)

\* calculateBoundingBoxes(centerLat, centerLon, radiusKm): boxes, in the order
\* they are pushed (i outer, j inner)
calculateBoundingBoxes(centerLat, centerLon, radiusKm) ==
    IF radiusKm <= maxBoxSize
    THEN << createBoundingBox(centerLat, centerLon, radiusKm) >>
    ELSE LET numBoxes == numBoxesOf(radiusKm) IN
         [k \in 1..(numBoxes * numBoxes) |->
             gridBox(centerLat, centerLon, numBoxes,
                     (k - 1) \div numBoxes, (k - 1) % numBoxes)]

\* the arguments: the airport and three other latitudes, the airport's
\* longitude and one next to the 180th meridian, radii around the multiples
\* of maxBoxSize
TileLatitudes == {0, 500379, 800000, -340000}
TileLongitudes == {85622, 1799000}
TileRadii ==
    { r \in {1, 100, 499, 500, 501, 999, 1000, 1001, 1200, 1500, 1501, 2000, 2001} :
        r <= MaxGrid * maxBoxSize }

Tile ==
    /\ pure.fn = "none"
    /\ \E centerLat \in TileLatitudes, centerLon \in TileLongitudes, radiusKm \in TileRadii :
         pure' = [fn |-> "calculateBoundingBoxes", centerLat |-> centerLat,
                  centerLon |-> centerLon, radiusKm |-> radiusKm,
                  result |-> calculateBoundingBoxes(centerLat, centerLon, radiusKm)]
    /\ UNCHANGED <<client, aviationStackKey, updateInterval, timers, monitoring,
                   cycles, redis, mongo, call, storing>>

NextTile == Tile
SpecTile == InitCallSpec /\ [][NextTile]_vars

\* the least n with radiusKm <= n * 500
gridSize(radiusKm) == CHOOSE n \in 1..(MaxGrid + 2) : (n - 1) * 500 < radiusKm /\ radiusKm <= n * 500
rowOf(k, n) == (k - 1) \div n
columnOf(k, n) == (k - 1) % n
unclamped(box) == box.lomin > -1800000 /\ box.lomax < 1800000

\* C19: calculateBoundingBoxes returns one box, of half-size radiusKm around
\* the center, when radiusKm <= 500, and n * n boxes, n = ceil(radiusKm / 500),
\* when radiusKm > 500: the box of row i and column j has half-size 250 km
\* and its center is the center moved by (i - (n-1)/2) * 450 km in latitude
\* and (j - (n-1)/2) * 450 km in longitude.
C19_TileCount ==
    pure.fn = "calculateBoundingBoxes" =>
        LET boxes == pure.result
            r == pure.radiusKm
            n == gridSize(r)
        IN IF r <= 500
           THEN /\ Len(boxes) = 1
                /\ boxes[1].lamax - boxes[1].lamin = 2 * kmToDegrees(r)
                /\ boxes[1].lamax + boxes[1].lamin = 2 * pure.centerLat
                /\ unclamped(boxes[1]) =>
                       boxes[1].lomax + boxes[1].lomin = 2 * pure.centerLon
           ELSE /\ Len(boxes) = n * n
                /\ \A k \in 1..Len(boxes) :
                      LET i == rowOf(k, n)
                          j == columnOf(k, n)
                          latKm == i * 450 - (n - 1) * 225
                          lonKm == j * 450 - (n - 1) * 225
                      IN /\ boxes[k].lamax - boxes[k].lamin = 2 * kmToDegrees(250)
                         /\ boxes[k].lamax + boxes[k].lamin
                               = 2 * (pure.centerLat + kmToDegrees(latKm))
                         /\ unclamped(boxes[k]) =>
                               boxes[k].lomax + boxes[k].lomin
                                 = 2 * (pure.centerLon
                                        + kmToLonDegrees(lonKm, pure.centerLat))
C19_Witness ==
    /\ pure.fn = "calculateBoundingBoxes"
    /\ pure.radiusKm = 1001 /\ pure.centerLat = 500379
    /\ Len(pure.result) = 9

\* the km that d (1e-4 degree) of longitude span at latitude lat, times 1e8
\* and divided by 111.32
lonSpan(d, lat) == d * cosE4(lat)
\* 50 km in that unit, less 0.1 km for the rounding
marginSpan == kmToDegrees(overlap) * 10000 - 100000
\* C20: when more than one box is returned, two boxes next to each other in
\* a column overlap by at least 50 km of latitude, and two boxes next to each
\* other in a row overlap by at least 50 km of longitude, measured at the
\* latitude of the row's centers (0.1 km is allowed for rounding).
C20_TilesOverlap ==
    (pure.fn = "calculateBoundingBoxes" /\ Len(pure.result) > 1) =>
        LET boxes == pure.result
            n == gridSize(pure.radiusKm)
        IN \A k, m \in 1..Len(boxes) :
              /\ (columnOf(k, n) = columnOf(m, n) /\ rowOf(m, n) = rowOf(k, n) + 1) =>
                     boxes[k].lamax - boxes[m].lamin >= kmToDegrees(50) - 10
              /\ (rowOf(k, n) = rowOf(m, n) /\ columnOf(m, n) = columnOf(k, n) + 1) =>
                     lonSpan(boxes[k].lomax - boxes[m].lomin,
                             (boxes[k].lamin + boxes[k].lamax) \div 2) >= marginSpan

\* C29: when radiusKm > 500, the point radiusKm north of the center and the
\* point radiusKm south of it, at the center's longitude, each lie inside a
\* box of the result (latitudes in 1e-4 degree times kmPerDegree are km
\* times 1e6).
C29_TilesCoverZone ==
    (pure.fn = "calculateBoundingBoxes" /\ pure.radiusKm > maxBoxSize) =>
        LET boxes == pure.result
            over(k) == boxes[k].lomin <= pure.centerLon /\ pure.centerLon <= boxes[k].lomax
        IN /\ \E k \in 1..Len(boxes) :
                 /\ over(k)
                 /\ (boxes[k].lamax - pure.centerLat) * kmPerDegree
                        >= pure.radiusKm * 1000000
           /\ \E k \in 1..Len(boxes) :
                 /\ over(k)
                 /\ (pure.centerLat - boxes[k].lamin) * kmPerDegree
                        >= pure.radiusKm * 1000000

\* --------------------------------------------- the boxes at the edges
\* centers next to a pole and next to the 180th meridian, besides the airport
BoxLatitudes == {0, 500379, 890000, -890000}
BoxLongitudes == {85622, 1799000, -1799000}
BoxHalfSizes == {1, 250, 500}

\* createBoundingBox on a center of the map
BoxCreate ==
    /\ pure.fn = "none"
    /\ \E centerLat \in BoxLatitudes, centerLon \in BoxLongitudes,
          halfSizeKm \in BoxHalfSizes :
         pure' = [fn |-> "createBoundingBox", centerLat |-> centerLat,
                  centerLon |-> centerLon, radiusKm |-> halfSizeKm,
                  result |-> << createBoundingBox(centerLat, centerLon, halfSizeKm) >>]
    /\ UNCHANGED <<client, aviationStackKey, updateInterval, timers, monitoring,
                   cycles, redis, mongo, call, storing>>

\* calculateBoundingBoxes on a center of the map
BoxTile ==
    /\ pure.fn = "none"
    /\ \E centerLat \in BoxLatitudes, centerLon \in BoxLongitudes, radiusKm \in TileRadii :
         pure' = [fn |-> "calculateBoundingBoxes", centerLat |-> centerLat,
                  centerLon |-> centerLon, radiusKm |-> radiusKm,
                  result |-> calculateBoundingBoxes(centerLat, centerLon, radiusKm)]
    /\ UNCHANGED <<client, aviationStackKey, updateInterval, timers, monitoring,
                   cycles, redis, mongo, call, storing>>

NextBox ==
    \/ BoxCreate
    \/ BoxTile
SpecBox == InitCallSpec /\ [][NextBox]_vars

\* C21: every box returned by createBoundingBox and by calculateBoundingBoxes
\* has lamin <= lamax and lomin <= lomax, its latitudes within [-90, 90] and
\* its longitudes within [-180, 180].
C21_BoxInvariant ==
    pure.fn \in {"createBoundingBox", "calculateBoundingBoxes"} =>
        \A k \in 1..Len(pure.result) :
            LET box == pure.result[k] IN
            /\ box.lamin <= box.lamax
            /\ box.lomin <= box.lomax
            /\ -900000 <= box.lamin /\ box.lamax <= 900000
            /\ -1800000 <= box.lomin /\ box.lomax <= 1800000

\* ------------------------------------------ storeSchedules, interleaved
\* the schedules storeSchedules is given: two of one flight number that
\* differ in gate and status, one of another flight number
StoreSchedules ==
    { Schedule(Some(KL12), "KLM", None, Some("Terminal 2"), Some("D2"), "delayed"),
      Schedule(Some(KL12), "KLM", None, Some("Terminal 2"), Some("D7"), "active"),
      Schedule(Some(KL99), "KLM", None, Some("Terminal 2"), Some("D1"), "scheduled") }

\* storeSchedules(schedules) is called by w: it returns at once on an empty
\* list, else it sends one bulkWrite of an updateOne per schedule
StoreSchedulesCalled(w) ==
    /\ storing[w] = Idle
    /\ \E schedules \in SeqsUpTo(StoreSchedules, MaxSchedules) :
         storing' = [storing EXCEPT ![w] = [schedules |-> schedules, n |-> 0]]
    /\ UNCHANGED <<client, aviationStackKey, updateInterval, timers, monitoring,
                   cycles, redis, mongo, call, pure>>

\* the store applies the next operation of w's bulkWrite; after the last one
\* the bulkWrite is answered and storeSchedules returns
StoreOperationApplied(w) ==
    /\ storing[w].n < Len(storing[w].schedules)
    /\ mongo' = updateOne(mongo, storing[w].schedules[storing[w].n + 1])
    /\ storing' = [storing EXCEPT ![w] =
                      IF storing[w].n + 1 = Len(storing[w].schedules) THEN Idle
                      ELSE [storing[w] EXCEPT !.n = @ + 1]]
    /\ UNCHANGED <<client, aviationStackKey, updateInterval, timers, monitoring,
                   cycles, redis, call, pure>>

\* w's bulkWrite fails: its other operations are not applied
StoreBulkWriteFails(w) ==
    /\ storing[w].n < Len(storing[w].schedules)
    /\ storing' = [storing EXCEPT ![w] = Idle]
    /\ UNCHANGED <<client, aviationStackKey, updateInterval, timers, monitoring,
                   cycles, redis, mongo, call, pure>>

NextStore ==
    \/ \E w \in Callers : StoreSchedulesCalled(w)
    \/ \E w \in Callers : StoreOperationApplied(w)
    \/ \E w \in Callers : StoreBulkWriteFails(w)
SpecStore == InitCallSpec /\ [][NextStore]_vars

EmptyHash == <<>>
hGetAll(cache, callsign) ==
    IF callsign \in DOMAIN cache THEN cache[callsign] ELSE EmptyHash
\* data.f: undefined when the hash has no field f
field(h, f) == IF f \in DOMAIN h THEN Some(h[f]) ELSE None
\* Object.keys(h).length === 0
noFields(h) == DOMAIN h = {}
\* parseFloat: NaN on undefined
NaN == [nan |-> TRUE, v |-> 0]
Num(v) == [nan |-> FALSE, v |-> v]
parseFloat(x) == IF isNull(x) THEN NaN ELSE Num(val(x))
\* x || 0
orZero(x) == IF x.nan THEN Num(0) ELSE x
\* the part of a hash the status resolvers read
liveOf(h) == Some([on_ground |-> field(h, "on_ground")])

KL123 == <<"K","L","1","2","3">>
CachedHash(callsign, ground) ==
    [callsign |-> callsign, latitude |-> 500380, longitude |-> 85620,
     altitude |-> 3000, on_ground |-> ground]
\* the cache: empty, or one key
Caches ==
    { <<>>, KL99 :> CachedHash(KL99, "false"), KL123 :> CachedHash(KL123, "true") }
\* the flight asked for
CacheFlights == {KL12, KL99}
\* the schedule documents of the store: those with both parts
CacheSchedules ==
    { d \in ScheduleDocs : ~isNull(d.departure) /\ ~isNull(d.arrival) }

\* redis.keys(`aircraft:*${text}*:position`), redis.keys(`aircraft:${text}*:position`)
keysContaining(cache, text) == { k \in DOMAIN cache : includes(k, text) }
keysStarting(cache, text) == { k \in DOMAIN cache : substring0(k, Len(text)) = text }

\* the position a reader makes of a hash
positionOf(h) ==
    [latitude |-> parseFloat(field(h, "latitude")),
     longitude |-> parseFloat(field(h, "longitude")),
     altitude |-> parseFloat(field(h, "altitude"))]
positionOrZero(h) ==
    [latitude |-> orZero(parseFloat(field(h, "latitude"))),
     longitude |-> orZero(parseFloat(field(h, "longitude"))),
     altitude |-> orZero(parseFloat(field(h, "altitude")))]
\* the position getLiveFlights puts in when it has no position data;
\* random is Math.random() * 20000, rounded down
fallbackPosition(random) ==
    [latitude |-> Num(airportLat), longitude |-> Num(airportLon),
     altitude |-> Num(30000 + random)]
\* the flight of generateSampleFlights of the cache-backed service
cacheSampleFlight ==
    [callsign |-> LH123,
     position |-> Some([latitude |-> Num(airportLat), longitude |-> Num(airportLon),
                        altitude |-> Num(8000)]),
     on_ground |-> FALSE, status |-> "taxiing"]

\* FlightMonitorService.getFlightDetails(flightNumber): found is the key
\* redis.keys lists first, schedule what getFlightSchedule finds.  The gate
\* and terminal, which come from the gate assignments, are left out.
getFlightDetails(trimmed, cache, found, schedule) ==
    LET exact == hGetAll(cache, trimmed)
        data == IF ~noFields(exact) THEN Some(exact)
                ELSE IF ~isNull(found) THEN Some(hGetAll(cache, val(found)))
                ELSE None
    IN IF ~isNull(data) /\ ~noFields(val(data))
       THEN LET status == determineStatus(liveOf(val(data)), schedule) IN
            IF status.thrown THEN Thrown
            ELSE Returned(Some([callsign |-> val(data).callsign,
                                position |-> Some(positionOrZero(val(data))),
                                on_ground |-> val(data).on_ground = "true",
                                status |-> status.value]))
       ELSE IF ~isNull(schedule)
       THEN Returned(Some([callsign |-> trimmed, position |-> None,
                           status |-> IF truthyText(val(schedule).status)
                                      THEN val(val(schedule).status)
                                      ELSE "scheduled"]))
       ELSE Returned(None)

\* PassengerService.getFlightInfo(flightNumber): found is the key redis.keys
\* lists first, failed: a request to the cache was rejected
getFlightInfo(flightNumber, cache, found, failed, scheduleFound) ==
    LET liveData == IF failed THEN EmptyHash
                    ELSE IF ~isNull(found) THEN hGetAll(cache, val(found))
                    ELSE hGetAll(cache, flightNumber)
        currentPosition ==
            IF ~isNull(field(liveData, "latitude")) THEN Some(positionOf(liveData))
            ELSE None
    IN IF isNull(scheduleFound) /\ noFields(liveData)
       THEN Returned(Some([callsign |-> flightNumber, position |-> None,
                           status |-> "Unknown"]))
       ELSE IF isNull(scheduleFound)
       THEN Returned(Some([callsign |-> flightNumber, position |-> currentPosition,
                           status |-> IF field(liveData, "on_ground") = Some("true")
                                      THEN "On Ground" ELSE "In Flight"]))
       ELSE LET status == passengerDetermineStatus(val(scheduleFound), liveOf(liveData)) IN
            IF status.thrown THEN Thrown
            ELSE Returned(Some([callsign |-> flightNumber,
                                position |-> currentPosition,
                                status |-> status.value]))

\* the cache-backed getLiveFlights on a store of one schedule: failed: the
\* hGetAll was rejected (positionData stays null); determineStatus throws on
\* null position data and the catch block returns the sample flights
getLiveFlightsFromCache(callsign, schedule, cache, failed, random) ==
    LET positionData == IF failed THEN None ELSE Some(hGetAll(cache, callsign))
        status == determineStatus(IF isNull(positionData) THEN None
                                  ELSE liveOf(val(positionData)), Some(schedule))
    IN IF status.thrown THEN Returned(Some(cacheSampleFlight))
       ELSE Returned(Some(
                [callsign |-> callsign,
                 position |-> Some(IF ~isNull(positionData)
                                   THEN positionOf(val(positionData))
                                   ELSE fallbackPosition(random)),
                 on_ground |-> field(val(positionData), "on_ground") = Some("true"),
                 status |-> status.value]))

\* what redis.keys may list first: one of the keys that match, if any
firstOf(matches) == IF matches = {} THEN {None} ELSE { Some(k) : k \in matches }

ReadFlightDetails ==
    /\ pure.fn = "none"
    /\ \E flightNumber \in CacheFlights, cache \in Caches,
          schedule \in {None} \cup { Some(d) : d \in CacheSchedules } :
         \E found \in firstOf(keysContaining(cache, flightNumber)) :
           pure' = [fn |-> "getFlightDetails", flightNumber |-> flightNumber,
                    cache |-> cache, failed |-> FALSE,
                    result |-> getFlightDetails(flightNumber, cache, found, schedule)]
    /\ UNCHANGED <<client, aviationStackKey, updateInterval, timers, monitoring,
                   cycles, redis, mongo, call, storing>>

ReadFlightInfo ==
    /\ pure.fn = "none"
    /\ \E flightNumber \in CacheFlights, cache \in Caches, failed \in BOOLEAN,
          schedule \in {None} \cup { Some(d) : d \in CacheSchedules } :
         \E found \in firstOf(keysStarting(cache, flightNumber)) :
           pure' = [fn |-> "getFlightInfo", flightNumber |-> flightNumber,
                    cache |-> cache, failed |-> failed,
                    result |-> getFlightInfo(flightNumber, cache, found, failed, schedule)]
    /\ UNCHANGED <<client, aviationStackKey, updateInterval, timers, monitoring,
                   cycles, redis, mongo, call, storing>>

ReadLiveFlights ==
    /\ pure.fn = "none"
    /\ \E flightNumber \in CacheFlights, cache \in Caches, failed \in BOOLEAN,
          schedule \in CacheSchedules, random \in {0, 19999} :
         pure' = [fn |-> "getLiveFlights", flightNumber |-> flightNumber,
                  cache |-> cache, failed |-> failed,
                  result |-> getLiveFlightsFromCache(flightNumber, schedule, cache,
                                                     failed, random)]
    /\ UNCHANGED <<client, aviationStackKey, updateInterval, timers, monitoring,
                   cycles, redis, mongo, call, storing>>

NextRead ==
    \/ ReadFlightDetails
    \/ ReadFlightInfo
    \/ ReadLiveFlights
SpecRead == InitCallSpec /\ [][NextRead]_vars

\* a position that holds no value read from the cache: null, or the fallback
\* position (the airport, 30000 to 50000 ft)
noLivePosition(position) ==
    \/ isNull(position)
    \/ /\ val(position).latitude = Num(airportLat)
       /\ val(position).longitude = Num(airportLon)
       /\ ~val(position).altitude.nan
       /\ val(position).altitude.v >= 30000

\* C26: when the cache answers and has no key that holds the flight number
\* asked for, getFlightDetails, getFlightInfo and the cache-backed
\* getLiveFlights return without raising, and what they return is null or has
\* a position that is null or the fallback position.
C26_AbsentKeyNoLiveData ==
    (/\ pure.fn \in {"getFlightDetails", "getFlightInfo", "getLiveFlights"}
     /\ ~pure.failed
     /\ keysContaining(pure.cache, pure.flightNumber) = {}) =>
        /\ ~pure.result.thrown
        /\ \/ isNull(pure.result.value)
           \/ noLivePosition(val(pure.result.value).position)

\* ------------------------------------------ the cycles, by start order
\* Here cycles keeps every execution of updateFlightData, in start order, a
\* finished one with pc "done"; the hash of the position cache also holds
\* the cycle whose observation it is (the execution that fetched the
\* position whose fields and timestamp were written).
hSetFrom(r, callsign, c) ==
    [k \in DOMAIN r \cup {callsign} |->
        IF k = callsign
        THEN [ttl |-> IF callsign \in DOMAIN r THEN r[callsign].ttl ELSE FALSE,
              observation |-> c]
        ELSE r[k]]
\* cycle c goes on to pc next; it stays in the list when it is over
orderAdvance(cs, c, next) ==
    IF next \in {"stored", "caught"}
    THEN [cs EXCEPT ![c] = [NewCycle EXCEPT !.pc = "done"]]
    ELSE [cs EXCEPT ![c].pc = next]

\* the timer fires: updateFlightData runs up to its fetch, whether or not an
\* earlier execution is over
OrderTick ==
    /\ Len(cycles) < MaxCycles
    /\ cycles' = Append(cycles, NewCycle)
    /\ UNCHANGED <<client, aviationStackKey, updateInterval, timers, monitoring,
                   redis, mongo, call, pure, storing>>

OrderFetched(c) ==
    /\ cycles[c].pc = "fetch"
    /\ \E osky \in openSkyOutcomes(client, MonitorResponses),
          avs \in aviationOutcomes(aviationStackKey, MonitorAviationResponses) :
         LET flightData == getAllFlights(osky, avs) IN
         cycles' =
            IF flightData.thrown THEN orderAdvance(cycles, c, "caught")
            ELSE orderAdvance([cycles EXCEPT
                                  ![c].positions = flightData.value.livePositions,
                                  ![c].schedules = flightData.value.schedules,
                                  ![c].i = 1],
                              c,
                              cycleStorePc(flightData.value.livePositions,
                                           flightData.value.schedules, 1))
    /\ UNCHANGED <<client, aviationStackKey, updateInterval, timers, monitoring,
                   redis, mongo, call, pure, storing>>

OrderHSetDone(c) ==
    /\ cycles[c].pc = "hSet"
    /\ redis' = hSetFrom(redis, cycles[c].positions[cycles[c].i].callsign, c)
    /\ cycles' = orderAdvance(cycles, c, "expire")
    /\ UNCHANGED <<client, aviationStackKey, updateInterval, timers, monitoring,
                   mongo, call, pure, storing>>

OrderHSetFails(c) ==
    /\ cycles[c].pc = "hSet"
    /\ cycles' = orderAdvance(cycles, c, "caught")
    /\ UNCHANGED <<client, aviationStackKey, updateInterval, timers, monitoring,
                   redis, mongo, call, pure, storing>>

OrderExpireDone(c) ==
    /\ cycles[c].pc = "expire"
    /\ redis' = expire(redis, cycles[c].positions[cycles[c].i].callsign)
    /\ cycles' = orderAdvance([cycles EXCEPT ![c].i = @ + 1], c,
                              cycleStorePc(cycles[c].positions, cycles[c].schedules,
                                           cycles[c].i + 1))
    /\ UNCHANGED <<client, aviationStackKey, updateInterval, timers, monitoring,
                   mongo, call, pure, storing>>

OrderExpireFails(c) ==
    /\ cycles[c].pc = "expire"
    /\ cycles' = orderAdvance(cycles, c, "caught")
    /\ UNCHANGED <<client, aviationStackKey, updateInterval, timers, monitoring,
                   redis, mongo, call, pure, storing>>

OrderBulkWriteDone(c) ==
    /\ cycles[c].pc = "bulkWrite"
    /\ mongo' = bulkWrite(mongo, cycles[c].schedules, Len(cycles[c].schedules))
    /\ cycles' = orderAdvance(cycles, c, "stored")
    /\ UNCHANGED <<client, aviationStackKey, updateInterval, timers, monitoring,
                   redis, call, pure, storing>>

OrderBulkWriteFails(c) ==
    /\ cycles[c].pc = "bulkWrite"
    /\ \E n \in 0..(Len(cycles[c].schedules) - 1) :
         mongo' = bulkWrite(mongo, cycles[c].schedules, n)
    /\ cycles' = orderAdvance(cycles, c, "caught")
    /\ UNCHANGED <<client, aviationStackKey, updateInterval, timers, monitoring,
                   redis, call, pure, storing>>

NextOrder ==
    \/ OrderTick
    \/ \E c \in DOMAIN cycles : OrderFetched(c)
    \/ \E c \in DOMAIN cycles : OrderHSetDone(c)
    \/ \E c \in DOMAIN cycles : OrderHSetFails(c)
    \/ \E c \in DOMAIN cycles : OrderExpireDone(c)
    \/ \E c \in DOMAIN cycles : OrderExpireFails(c)
    \/ \E c \in DOMAIN cycles : OrderBulkWriteDone(c)
    \/ \E c \in DOMAIN cycles : OrderBulkWriteFails(c)
    \/ \E k \in DOMAIN redis : KeyExpires(k)
SpecOrder == Init /\ [][NextOrder]_vars

\* C27: no step replaces the position cached for a callsign by the
\* observation of a cycle that started before the cycle whose observation is
\* cached.
C27_CacheMovesForward ==
    [][\A k \in DOMAIN redis :
          k \in DOMAIN redis' => redis'[k].observation >= redis[k].observation]_vars

\* ------------------------------------------- properties of the monitoring
\* C1: periodic cycles never overlap: a timer tick starts an execution of
\* updateFlightData only when no execution is in progress.
C1_CyclesNeverOverlap ==
    [][(\E t \in DOMAIN timers : Tick(t)) => cycles = <<>>]_vars

\* C6: when no storeLivePositions is between its hSet and its expire, every
\* key of the position cache has an expiry.
C6_EveryKeyHasExpiry ==
    (\A c \in DOMAIN cycles : cycles[c].pc # "expire") =>
        \A k \in DOMAIN redis : redis[k].ttl

\* C7: at most one timer is active, and once stopMonitoring has returned (and
\* until startMonitoring is called again) no step starts a new cycle.
activeTimers == { t \in DOMAIN timers : timers[t] }
C7_StopEndsTicks ==
    [][/\ Cardinality(activeTimers) <= 1
       /\ (~monitoring /\ ~monitoring') => Len(cycles') <= Len(cycles)]_vars

\* C8: a cycle whose fetch was in flight when stopMonitoring returned makes
\* no write to the position cache or to the schedule store.
writes(c) ==
    \/ CycleHSetDone(c)
    \/ CycleExpireDone(c)
    \/ CycleBulkWriteDone(c)
    \/ CycleBulkWriteFails(c) /\ mongo' # mongo
C8_PendingResultsDiscarded ==
    [][\A c \in DOMAIN cycles : cycles[c].stopPending => ~writes(c)]_vars

\* ------------------------------------------------ properties of one call
liveDone == call.entry = "getLiveFlights" /\ call.pc = "done"
allDone == call.entry = "getAllFlights" /\ call.pc = "done"

\* C2: once getOpenSkyFlights has settled: a failed credentialed request was
\* followed by exactly one request without credentials, at most two requests
\* were issued, a second request was issued only after a failed credentialed
\* one, and a failed source gives the empty list.
C2_RetryOnceWithoutCredentials ==
    call.oskySettled =>
        /\ call.authFailed => call.requests = <<"auth", "anon">>
        /\ Len(call.requests) <= 2
        /\ Len(call.requests) = 2 => call.authFailed /\ call.requests[1] = "auth"
        /\ call.telemetry = "failed" => call.osky = Returned(<<>>)

\* what each feed contributes by itself: the value getOpenSkyFlights made of
\* the telemetry response, or [] when the request failed; the value
\* getAviationStackFlights made of the schedule response, or the sample
\* flights when that source gave no flights, had no key or failed
telemetryContribution ==
    IF call.telemetry = "ok" THEN call.osky.value ELSE <<>>
scheduleContribution ==
    IF call.avs.source = "data" THEN call.avs.p.value ELSE generateSampleFlights

\* C3: after the joint await, whatever the outcome and order of the two
\* fetches, the call has not rejected and holds each feed's own
\* contribution: the telemetry positions (or [] when that feed failed) and
\* the schedules (or the sample flights when that feed failed).
C3_FetchesIndependent ==
    (call.pc \notin {"idle", "fetch"}) =>
        /\ call.outcome # "rejected"
        /\ call.openSkyFlights = telemetryContribution
        /\ call.aviationStackFlights = scheduleContribution
        /\ allDone => /\ call.outcome = "resolved"
                      /\ call.result.livePositions = telemetryContribution
                      /\ call.result.schedules = scheduleContribution
C3_Witness ==
    /\ allDone
    /\ call.telemetry = "ok" /\ call.avs.source = "failed"
    /\ Len(call.result.livePositions) = 2

\* C4: getLiveFlights always resolves, and its result has one enriched
\* flight for every position getOpenSkyFlights delivered (none when that
\* fetch failed), in the same order and with that position's callsign,
\* coordinates and on-ground flag, whatever happened to the schedule fetch
\* and to the two stores.
C4_CycleCompletes ==
    liveDone =>
        /\ call.outcome = "resolved"
        /\ call.telemetry = "failed" => call.result = <<>>
        /\ Len(call.result) = Len(call.osky.value)
        /\ \A i \in 1..Len(call.result) :
               /\ call.result[i].callsign = call.osky.value[i].callsign
               /\ call.result[i].latitude = coerce(call.osky.value[i].latitude)
               /\ call.result[i].longitude = coerce(call.osky.value[i].longitude)
               /\ call.result[i].on_ground = call.osky.value[i].on_ground
C4_Witness ==
    /\ liveDone
    /\ call.avs.source = "failed" /\ call.storeFailed
    /\ Len(call.result) = 2

\* C5: when a store request of getLiveFlights failed, the call still
\* resolves, with exactly the enriched flights computed from the fetched
\* positions and schedules (the list returned when the stores succeed).
C5_StoreBestEffort ==
    (liveDone /\ call.storeFailed) =>
        /\ call.outcome = "resolved"
        /\ call.result = enrichedFlights(call.openSkyFlights, call.aviationStackFlights)
C5_Witness ==
    /\ liveDone /\ call.storeFailed
    /\ call.i = 2 /\ Len(call.result) = 2
    /\ mongo = <<>>

\* C9: the flights returned by getLiveFlights never hold two flights with the
\* same fingerprint (callsign, latitude and longitude rounded to 3 decimals).
sameFingerprint(f, g) ==
    /\ f.callsign = g.callsign
    /\ toFixed3(f.latitude) = toFixed3(g.latitude)
    /\ toFixed3(f.longitude) = toFixed3(g.longitude)
C9_CycleDeduplicates ==
    liveDone =>
        \A i, j \in 1..Len(call.result) :
            i # j => ~sameFingerprint(call.result[i], call.result[j])

\* C10: in the result of getLiveFlights, a flight whose callsign is the
\* flight number of a schedule in the index carries that schedule, also when
\* an entry earlier in the index matches the fallback heuristic.
C10_ExactMatchFirst ==
    (liveDone /\ call.telemetry = "ok") =>
        LET index == objectEntries(buildScheduleMap(call.aviationStackFlights)) IN
        \A i \in 1..Len(call.result), k \in 1..Len(index) :
            index[k].value.flightNumber = Some(call.result[i].callsign)
                => call.result[i].schedule = index[k].value
C10_Witness ==
    /\ liveDone /\ call.telemetry = "ok"
    /\ LET index == objectEntries(buildScheduleMap(call.aviationStackFlights)) IN
       \E i \in 1..Len(call.result), k, e \in 1..Len(index) :
            /\ e < k
            /\ fallbackHit(index[e], call.result[i].callsign)
            /\ index[k].value.flightNumber = Some(call.result[i].callsign)
            /\ call.result[i].schedule = index[k].value

\* C24: a fetch whose request failed settles without raising and with the
\* empty list, for the telemetry feed (after its last request failed) and for
\* the schedule feed alike.
C24_TransportFailureEmpty ==
    /\ (call.oskySettled /\ call.telemetry = "failed") => call.osky = Returned(<<>>)
    /\ (call.avs.st = "settled" /\ call.avs.source = "failed") =>
           call.avs.p = Returned(<<>>)

\* C30: a cycle whose fetch returned schedules leaves updateFlightData only
\* from its schedule-store write: a failure while the positions are written
\* to the cache does not end the cycle.
C30_StoreWritesIndependent ==
    [][\A c \in DOMAIN cycles :
          (cycles' = without(cycles, c) /\ Len(cycles[c].schedules) > 0)
              => cycles[c].pc = "bulkWrite"]_vars

====
